---- MODULE Spec2Model ----
(***************************************************************************)
(* The dithering engine of dither-boy (src/dither-boy/src/lib/             *)
(* dithering-engine.ts): DitheringEngine.processImage, the fifteen pixel   *)
(* routines it dispatches to, their shared primitives, and the algorithm   *)
(* registry DITHERING_ALGORITHMS.                                          *)
(*                                                                         *)
(* Buffers are functions over 0..length-1 so that the index arithmetic of  *)
(* the source ((y * width + x) * 4, i + 4 * width - 4, ...) is kept as     *)
(* written.  Numbers that the source holds as doubles are kept as exact    *)
(* rationals (numerator, denominator); the inputs are chosen so that the   *)
(* double computation and the exact one agree (see Palette and             *)
(* OptionValues).                                                          *)
(***************************************************************************)
EXTENDS Integers, Sequences, FiniteSets, TLC

VARIABLES
  imageData,    \* the caller's ImageData: [data |-> array reference, width, height]
  heap,         \* the typed arrays: reference -> samples (a function over 0..length-1)
  before,       \* the samples of the caller's array when the most recent call began
  call,         \* the most recent call of processImage: id, options, routine, arguments
  returned,     \* the ProcessedImage the most recent call returned
  consoleWarn,  \* what the most recent call wrote with console.warn
  kept,         \* an earlier call and its output, retained for comparison
  loop,         \* the grid loops of a call in progress: [active, step, x, y]
  \* The calling application, the component DitherBoy:
  selectedAlgorithm,    \* useState: the id of the selected descriptor, or Null
  algorithmParameters,  \* useState: parameter name -> value
  uploadedFiles,        \* useState: the accepted files
  currentImage,         \* useState: the data URL of the uploaded image, or ""
  processedImage,       \* useState: the displayed result, or NoImage
  isProcessing,         \* useState
  uploadResetToken,     \* useState
  timeoutId,            \* the debounce effect's timer is pending
  readers,              \* the files whose FileReader has not fired onload yet
  inFlight,             \* the calls of processImage awaiting their image's load
  started,              \* how many calls of the component's processImage began
  shown,                \* the call whose result processedImage holds
  downloads             \* how many times handleExportResult clicked its link

engineVars == <<imageData, heap, before, call, returned, consoleWarn, kept, loop>>

appVars ==
  <<selectedAlgorithm, algorithmParameters, uploadedFiles, currentImage,
    processedImage, isProcessing, uploadResetToken, timeoutId, readers,
    inFlight, started, shown, downloads>>

vars ==
  <<imageData, heap, before, call, returned, consoleWarn, kept, loop,
    selectedAlgorithm, algorithmParameters, uploadedFiles, currentImage,
    processedImage, isProcessing, uploadResetToken, timeoutId, readers,
    inFlight, started, shown, downloads>>

-----------------------------------------------------------------------------
(* Bounds of the model *)

\* The images of Spec are the patterned images of 1..MaxWidth by 1..MaxHeight
\* pixels.
MaxWidth == 3
MaxHeight == 3

\* A run of Math.random is a cycle of TapeLen values.
TapeLen == 2

\* The images of SpecRepeat are RepeatSide by RepeatSide pixels; MaxLater caps
\* the count of the calls made since an output was retained.
RepeatSide == 2
MaxLater == 2

\* The images of SpecDatabend are BendWidth by BendHeight pixels.
BendWidth == 20
BendHeight == 17

\* In SpecLoops a loop variable that moves away from its limit is followed
\* down to -MaxRetreat.
MaxRetreat == 3

\* The patterned images of SpecWide are WideWidth by WideHeight pixels.
WideWidth == 5
WideHeight == 3

-----------------------------------------------------------------------------
(* Arithmetic helpers: what Math.round, Math.floor, Math.min, Math.max and   *)
(* the Uint8ClampedArray store do.                                           *)

Min(a, b) == IF a < b THEN a ELSE b
Max(a, b) == IF a > b THEN a ELSE b

\* Math.round(n / d) for d > 0: nearest integer, a tie goes up.
MathRound(n, d) == (2 * n + d) \div (2 * d)

\* Math.floor(n / d) for d > 0.
MathFloor(n, d) == n \div d

\* The conversion a Uint8ClampedArray applies to a stored number n / d (d > 0):
\* clamp to 0..255, then round to nearest, a tie going to the even integer.
ToUint8Clamp(n, d) ==
  LET q == n \div d
      r == n % d
      nearest == IF 2 * r < d THEN q
                 ELSE IF 2 * r > d THEN q + 1
                 ELSE IF q % 2 = 0 THEN q ELSE q + 1
  IN  Max(0, Min(255, nearest))

\* A mutation of ClampedSum: the sum is stored as a plain Uint8Array stores
\* it, modulo 256, with no Math.max / Math.min around it.
WrappedSum(sample, en, ed) == ((sample * ed + en) \div ed) % 256

\* Math.max(0, Math.min(255, data[index] + error)) as stored into the array,
\* with error = en / ed.
ClampedSum(sample, en, ed) == ToUint8Clamp(sample * ed + en, ed)

-----------------------------------------------------------------------------
(* Grayscale reducer *)

\* Math.round(0.299 * data[i] + 0.587 * data[i + 1] + 0.114 * data[i + 2])
Gray(data, i) ==
  MathRound(299 * data[i] + 587 * data[i + 1] + 114 * data[i + 2], 1000)

-----------------------------------------------------------------------------
(* Error diffusion *)

\* A mutation of distributeError: the test of x and y is missing, only the
\* index is tested.
distributeErrorByIndex(data, width, height, x, y, index, en, ed) ==
  IF index >= 0 /\ index < 4 * width * height
  THEN [data EXCEPT ![index] = ClampedSum(data[index], en, ed)]
  ELSE data

\* distributeError(data, width, height, x, y, index, error), error = en / ed
distributeError(data, width, height, x, y, index, en, ed) ==
  IF x >= 0 /\ x < width /\ y >= 0 /\ y < height
     /\ index >= 0 /\ index < 4 * width * height
  THEN [data EXCEPT ![index] = ClampedSum(data[index], en, ed)]
  ELSE data

\* A mutation of FloydSteinbergKernel: the three taps of the row below are
\* missing, so no error passes from one row to the next.
RowOnlyKernel ==
  [divisor |-> 16, taps |-> << <<1, 0, 7>> >>]

\* A mutation of FloydSteinbergKernel: the 7/16 tap goes to the pixel on the
\* left, which the loop has already quantized.
MirroredKernel ==
  [divisor |-> 16,
   taps |-> << <<-1, 0, 7>>, <<-1, 1, 3>>, <<0, 1, 5>>, <<1, 1, 1>> >>]

\* The calls of distributeError each routine makes for one pixel, in the
\* order of the source: <<dx, dy, weight>> stands for
\* distributeError(data, width, height, x + dx, y + dy,
\*                 i + 4 * width * dy + 4 * dx, error * weight / divisor).
FloydSteinbergKernel ==
  [divisor |-> 16,
   taps |-> << <<1, 0, 7>>, <<-1, 1, 3>>, <<0, 1, 5>>, <<1, 1, 1>> >>]

\* A mutation of AtkinsonKernel: the fifth call goes to the pixel below,
\* (0, 1), as in the published Atkinson filter, where the source has (-2, 1).
PublishedAtkinsonKernel ==
  [divisor |-> 8,
   taps |-> << <<1, 0, 1>>, <<2, 0, 1>>, <<-1, 1, 1>>, <<1, 1, 1>>,
               <<0, 1, 1>>, <<0, 2, 1>> >>]

AtkinsonKernel ==
  [divisor |-> 8,
   taps |-> << <<1, 0, 1>>, <<2, 0, 1>>, <<-1, 1, 1>>, <<1, 1, 1>>,
               <<-2, 1, 1>>, <<0, 2, 1>> >>]

\* A mutation of StuckiKernel: the first call goes to the pixel on the left,
\* (-1, 0), which the loop has already binarized.
BackwardStuckiKernel ==
  [divisor |-> 42,
   taps |-> << <<-1, 0, 8>>, <<2, 0, 4>>,
               <<-2, 1, 2>>, <<-1, 1, 4>>, <<0, 1, 8>>, <<1, 1, 4>>, <<2, 1, 2>>,
               <<-2, 2, 1>>, <<-1, 2, 2>>, <<0, 2, 4>>, <<1, 2, 2>>, <<2, 2, 1>> >>]

StuckiKernel ==
  [divisor |-> 42,
   taps |-> << <<1, 0, 8>>, <<2, 0, 4>>,
               <<-2, 1, 2>>, <<-1, 1, 4>>, <<0, 1, 8>>, <<1, 1, 4>>, <<2, 1, 2>>,
               <<-2, 2, 1>>, <<-1, 2, 2>>, <<0, 2, 4>>, <<1, 2, 2>>, <<2, 2, 1>> >>]

\* A mutation of BurkesKernel: the call for the pixel below carries the weight
\* 4 where the source has 8.
LightBurkesKernel ==
  [divisor |-> 32,
   taps |-> << <<1, 0, 8>>, <<2, 0, 4>>,
               <<-2, 1, 2>>, <<-1, 1, 4>>, <<0, 1, 4>>, <<1, 1, 4>>, <<2, 1, 2>> >>]

BurkesKernel ==
  [divisor |-> 32,
   taps |-> << <<1, 0, 8>>, <<2, 0, 4>>,
               <<-2, 1, 2>>, <<-1, 1, 4>>, <<0, 1, 8>>, <<1, 1, 4>>, <<2, 1, 2>> >>]

SierraKernel ==
  [divisor |-> 32,
   taps |-> << <<1, 0, 5>>, <<2, 0, 3>>,
               <<-2, 1, 2>>, <<-1, 1, 4>>, <<0, 1, 5>>, <<1, 1, 4>>, <<2, 1, 2>>,
               <<-1, 2, 2>>, <<0, 2, 3>>, <<1, 2, 2>> >>]

\* const newGray = gray < 128 ? 0 : 255
Quantize(gray) == IF gray < 128 THEN 0 ELSE 255

\* A mutation of ScaledError: the error is not scaled by the intensity.
FullError(oldGray, newGray, intensity) == (oldGray - newGray) * 100

\* const error = (oldGray - newGray) * intensityFactor, as a numerator over 100
ScaledError(oldGray, newGray, intensity) == (oldGray - newGray) * intensity

\* data[i] = data[i + 1] = data[i + 2] = newGray
SetGray(data, i, newGray) ==
  [data EXCEPT ![i] = newGray, ![i + 1] = newGray, ![i + 2] = newGray]

\* The distributeError calls of one pixel, from tap s.k on; s.data is the array.
RECURSIVE DistributeTaps(_, _, _, _, _, _, _)
DistributeTaps(s, width, height, x, y, error, kernel) ==
  IF s.k > Len(kernel.taps) THEN s.data
  ELSE LET tap == kernel.taps[s.k]
           i == (y * width + x) * 4
       IN  DistributeTaps(
             [data |-> distributeError(s.data, width, height,
                                       x + tap[1], y + tap[2],
                                       i + 4 * width * tap[2] + 4 * tap[1],
                                       error * tap[3], 100 * kernel.divisor),
              k |-> s.k + 1],
             width, height, x, y, error, kernel)

\* The body of the two loops for the pixel (x, y).
DiffusePixel(data, width, height, intensity, kernel, x, y) ==
  LET i == (y * width + x) * 4
      gray == Gray(data, i)
      newGray == Quantize(gray)
      error == ScaledError(gray, newGray, intensity)
  IN  SetGray(DistributeTaps([data |-> data, k |-> 1],
                             width, height, x, y, error, kernel),
              i, newGray)

\* for y in 0..height-1, for x in 0..width-1, from pixel number s.p on.
RECURSIVE diffusionLoop(_, _, _, _, _)
diffusionLoop(s, width, height, intensity, kernel) ==
  IF s.p >= width * height THEN s.data
  ELSE diffusionLoop(
         [data |-> DiffusePixel(s.data, width, height, intensity, kernel,
                                s.p % width, s.p \div width),
          p |-> s.p + 1],
         width, height, intensity, kernel)

\* The working buffer when the loop reaches pixel number n: the pixels before
\* it have been processed.
RECURSIVE diffusedUpTo(_, _, _, _, _, _)
diffusedUpTo(data, width, height, intensity, kernel, n) ==
  IF n = 0 THEN data
  ELSE DiffusePixel(diffusedUpTo(data, width, height, intensity, kernel, n - 1),
                    width, height, intensity, kernel,
                    (n - 1) % width, (n - 1) \div width)

\* What the loop does to the working buffer from pixel number s.p on, added to
\* s.writes and s.buffers: a record for every distributeError call that
\* passes the bounds test (the index, the sample before and after and the error
\* en / ed), and the buffer after every such call and after every pixel.
RECURSIVE diffusionSteps(_, _, _, _, _)
diffusionSteps(s, width, height, intensity, kernel) ==
  IF s.p >= width * height THEN s
  ELSE LET x == s.p % width
           y == s.p \div width
           i == (y * width + x) * 4
           gray == Gray(s.data, i)
           error == ScaledError(gray, Quantize(gray), intensity)
           after(k) == DistributeTaps([data |-> s.data, k |-> 1], width, height,
                                      x, y, error,
                                      [kernel EXCEPT !.taps = SubSeq(@, 1, k)])
           inBounds(tap) == /\ x + tap[1] >= 0 /\ x + tap[1] < width
                            /\ y + tap[2] >= 0 /\ y + tap[2] < height
           write(k) == LET tap == kernel.taps[k]
                           index == i + 4 * width * tap[2] + 4 * tap[1]
                       IN  [pixel |-> s.p, index |-> index,
                            old |-> after(k - 1)[index], new |-> after(k)[index],
                            en |-> error * tap[3], ed |-> 100 * kernel.divisor]
           taps == {k \in 1..Len(kernel.taps) : inBounds(kernel.taps[k])}
           next == DiffusePixel(s.data, width, height, intensity, kernel, x, y)
       IN  diffusionSteps(
             [data |-> next, p |-> s.p + 1,
              writes |-> s.writes \cup {write(k) : k \in taps},
              buffers |-> s.buffers \cup {after(k) : k \in taps} \cup {next}],
             width, height, intensity, kernel)

errorDiffusion(data, width, height, intensity, kernel) ==
  diffusionLoop([data |-> data, p |-> 0], width, height, intensity, kernel)

-----------------------------------------------------------------------------
(* Ordered (Bayer) dithering *)

\* generateBayerMatrix(size): the rows of the table, top to bottom.
\* A mutation of generateBayerMatrix: the procedural fill for every size, its
\* modulus one short, so the last entry repeats the first.
ShortModulusMatrix(size) ==
  [i \in 1..size |->
     [j \in 1..size |-> ((i - 1) * size + (j - 1)) % (size * size - 1)]]

generateBayerMatrix(size) ==
  IF size = 2 THEN
    << <<0, 2>>,
       <<3, 1>> >>
  ELSE IF size = 4 THEN
    << <<0, 8, 2, 10>>,
       <<12, 4, 14, 6>>,
       <<3, 11, 1, 9>>,
       <<15, 7, 13, 5>> >>
  ELSE IF size = 8 THEN
    << <<0, 48, 12, 60, 3, 51, 15, 63>>,
       <<32, 16, 44, 28, 35, 19, 47, 31>>,
       <<8, 56, 4, 52, 11, 59, 7, 55>>,
       <<40, 24, 36, 20, 43, 27, 39, 23>>,
       <<2, 50, 14, 62, 1, 49, 13, 61>>,
       <<34, 18, 46, 30, 33, 17, 45, 29>>,
       <<10, 58, 6, 54, 9, 57, 5, 53>>,
       <<42, 26, 38, 22, 41, 25, 37, 21>> >>
  ELSE IF size = 16 THEN
    [i \in 1..16 |-> [j \in 1..16 |-> ((i - 1) * 16 + (j - 1)) % 256]]
  ELSE
    << <<0, 1>>, <<2, 3>> >>

\* gray > threshold + (bayerMatrix[y % size][x % size] - 0.5) * 255 * intensityFactor,
\* both sides multiplied by 200; entry is the matrix entry as the routine reads it.
AboveBayerThreshold(gray, threshold, entry, intensity) ==
  200 * gray > 200 * threshold + (2 * entry - 1) * 255 * intensity

\* thresholdValue = threshold + (bayerMatrix[y % size][x % size] - 0.5) * 255
\* * intensityFactor at the pixel (x, y), multiplied by 200.
BayerThresholdValue(threshold, size, x, y, intensity) ==
  200 * threshold
    + (2 * generateBayerMatrix(size)[(y % size) + 1][(x % size) + 1] - 1)
        * 255 * intensity

RECURSIVE bayerLoop(_, _, _, _, _, _)
bayerLoop(s, width, height, intensity, threshold, size) ==
  IF s.p >= width * height THEN s.data
  ELSE LET x == s.p % width
           y == s.p \div width
           i == (y * width + x) * 4
           bayerMatrix == generateBayerMatrix(size)
           entry == bayerMatrix[(y % size) + 1][(x % size) + 1]
           newGray == IF AboveBayerThreshold(Gray(s.data, i), threshold, entry,
                                             intensity)
                      THEN 255 ELSE 0
       IN  bayerLoop([data |-> SetGray(s.data, i, newGray), p |-> s.p + 1],
                     width, height, intensity, threshold, size)

bayerDithering(data, width, height, intensity, threshold, size) ==
  bayerLoop([data |-> data, p |-> 0], width, height, intensity, threshold, size)

-----------------------------------------------------------------------------
(* Math.random *)

\* The values Math.random() returns in the model, in thousandths: each lies in
\* [0, 1), and Math.floor(r * 4) takes each of 0, 1, 2, 3 on them.
RandomUnits == {0, 300, 600, 900}

\* A run of Math.random: draw number k (from 0) returns rand[k % TapeLen].
Tapes == [0..(TapeLen - 1) -> RandomUnits]

MathRandom(rand, k) == rand[k % TapeLen]

\* The tape of a call that draws nothing.
NoTape == [k \in 0..(TapeLen - 1) |-> 0]

-----------------------------------------------------------------------------
(* Blue-noise approximation *)

\* Math.sin(x * 0.1) and Math.cos(y * 0.1) in ten-thousandths, by their Taylor
\* polynomials (exact to the last digit for arguments up to 1).
SinTenth(x) == x * 1000 - (x * x * x * 10) \div 6 + (x * x * x * x * x) \div 1200

CosTenth(y) == 10000 - y * y * 50 + (y * y * y * y) \div 24
               - (y * y * y * y * y * y) \div 72000

\* generateBlueNoisePattern(size)[y][x] - 0.5 in twenty-thousandths, that is
\* noise = Math.sin(x * 0.1) * Math.cos(y * 0.1) + Math.random() * 0.3 in
\* ten-thousandths; the entry (x, y) takes draw number y * size + x.
BlueNoiseEntry(size, x, y, rand) ==
  (SinTenth(x) * CosTenth(y)) \div 10000 + 3 * MathRandom(rand, y * size + x)

\* gray > 128 + (blueNoise[..][..] - 0.5) * 255 * intensityFactor,
\* both sides multiplied by 2000000.
AboveNoiseThreshold(gray, noise, intensity) ==
  2000000 * (gray - 128) > noise * 255 * intensity

RECURSIVE blueNoiseLoop(_, _, _, _, _, _)
blueNoiseLoop(s, width, height, intensity, tileSize, rand) ==
  IF s.p >= width * height THEN s.data
  ELSE LET x == s.p % width
           y == s.p \div width
           i == (y * width + x) * 4
           noise == BlueNoiseEntry(tileSize, x % tileSize, y % tileSize, rand)
           newGray == IF AboveNoiseThreshold(Gray(s.data, i), noise, intensity)
                      THEN 255 ELSE 0
       IN  blueNoiseLoop([data |-> SetGray(s.data, i, newGray), p |-> s.p + 1],
                         width, height, intensity, tileSize, rand)

blueNoiseDithering(data, width, height, intensity, tileSize, rand) ==
  blueNoiseLoop([data |-> data, p |-> 0], width, height, intensity, tileSize, rand)

-----------------------------------------------------------------------------
(* Random (white noise) dithering *)

(* The generator state is a double.  random * 1103515245 exceeds 2^53 for     *)
(* most states, so the product and the sum that follows are each rounded to   *)
(* 53 significant bits (nearest, ties to even) before % (2 ** 31) is taken.   *)
(* The product is held as five base-2^15 digits, least significant first.     *)

Base == 2 ^ 15
Multiplier == 1103515245
Increment == 12345

RECURSIVE Pow2(_)
Pow2(k) == IF k = 0 THEN 1 ELSE 2 * Pow2(k - 1)

RECURSIVE BitLength(_)
BitLength(n) == IF n = 0 THEN 0 ELSE 1 + BitLength(n \div 2)

\* Carry propagation: every digit back into 0..Base-1.
Carry(d) ==
  LET e1 == d[1] % Base
      t2 == d[2] + d[1] \div Base
      e2 == t2 % Base
      t3 == d[3] + t2 \div Base
      e3 == t3 % Base
      t4 == d[4] + t3 \div Base
      e4 == t4 % Base
      t5 == d[5] + t4 \div Base
  IN  <<e1, e2, e3, e4, t5>>

\* The exact product random * 1103515245, for 0 <= random < 2^31.
ExactProduct(random) ==
  LET s0 == random % Base
      s1 == (random \div Base) % Base
      s2 == random \div (Base * Base)
      a0 == Multiplier % Base
      a1 == (Multiplier \div Base) % Base
      a2 == Multiplier \div (Base * Base)
  IN  Carry(<<s0 * a0,
              s0 * a1 + s1 * a0,
              s0 * a2 + s1 * a1 + s2 * a0,
              s1 * a2 + s2 * a1,
              s2 * a2>>)

\* The number of significant bits of a digit vector.
DigitsBitLength(d) ==
  IF d[5] # 0 THEN 60 + BitLength(d[5])
  ELSE IF d[4] # 0 THEN 45 + BitLength(d[4])
  ELSE IF d[3] # 0 THEN 30 + BitLength(d[3])
  ELSE IF d[2] # 0 THEN 15 + BitLength(d[2])
  ELSE BitLength(d[1])

\* The double nearest to the integer d (ties to even).
RoundToDouble(d) ==
  LET k == DigitsBitLength(d) - 53
  IN  IF k <= 0 THEN d
      ELSE LET unit == Pow2(k)
               low == d[1] % unit
               up == \/ 2 * low > unit
                     \/ 2 * low = unit /\ (d[1] \div unit) % 2 = 1
           IN  Carry([d EXCEPT ![1] = d[1] - low + (IF up THEN unit ELSE 0)])

\* d % (2 ** 31)
Mod2Pow31(d) == d[1] + d[2] * Base + (d[3] % 2) * Base * Base

\* random = (random * 1103515245 + 12345) % (2 ** 31)
LcgNext(random) ==
  LET product == RoundToDouble(ExactProduct(random))
      sum == RoundToDouble(Carry([product EXCEPT ![1] = @ + Increment]))
  IN  Mod2Pow31(sum)

\* gray > 128 + (random / 2 ** 31 - 0.5) * 255 * intensityFactor, that is
\* random - 2^30 < (gray - 128) * 100 * 2^31 / (255 * intensity), the right side
\* taken in two steps of long division to stay within 32 bits.
AboveRandomThreshold(gray, random, intensity) ==
  IF intensity = 0 THEN gray > 128
  ELSE LET num == (gray - 128) * 100
           den == 255 * intensity
           left == random - Base * Base
           q1 == (num * 65536) \div den
           r1 == (num * 65536) % den
           floorT == q1 * Base + (r1 * Base) \div den
           exact == (r1 * Base) % den = 0
       IN  IF 2 * num >= den THEN TRUE
           ELSE IF 2 * num <= -den THEN FALSE
           ELSE IF exact THEN left < floorT ELSE left <= floorT

\* s.random is the generator state before the pixel number s.p draws.
\* The generator state after k calls of randomValue, from let random = seed.
RECURSIVE RandomStateAfter(_, _)
RandomStateAfter(seed, k) ==
  IF k = 0 THEN seed ELSE LcgNext(RandomStateAfter(seed, k - 1))

RECURSIVE randomLoop(_, _, _, _)
randomLoop(s, width, height, intensity) ==
  IF s.p >= width * height THEN s.data
  ELSE LET i == ((s.p \div width) * width + (s.p % width)) * 4
           next == LcgNext(s.random)
           newGray == IF AboveRandomThreshold(Gray(s.data, i), next, intensity)
                      THEN 255 ELSE 0
       IN  randomLoop([data |-> SetGray(s.data, i, newGray), random |-> next,
                       p |-> s.p + 1],
                      width, height, intensity)

\* let random = seed
randomDithering(data, width, height, intensity, seed) ==
  randomLoop([data |-> data, random |-> seed, p |-> 0], width, height, intensity)

-----------------------------------------------------------------------------
(* Halftone *)

\* The inner loops visit the cell number c of a block, dx = c % dotSize and
\* dy = c \div dotSize, when it lies inside the image.
InImage(width, height, dotSize, x, y, c) ==
  x + (c % dotSize) < width /\ y + (c \div dotSize) < height

CellIndex(width, dotSize, x, y, c) ==
  ((y + (c \div dotSize)) * width + (x + (c % dotSize))) * 4

\* totalGray and count after the first pair of inner loops, from cell s.c on.
RECURSIVE SumBlock(_, _, _, _, _, _, _)
SumBlock(s, data, width, height, dotSize, x, y) ==
  IF s.c >= dotSize * dotSize THEN s
  ELSE SumBlock(
         IF InImage(width, height, dotSize, x, y, s.c)
         THEN [totalGray |-> s.totalGray
                             + Gray(data, CellIndex(width, dotSize, x, y, s.c)),
               count |-> s.count + 1, c |-> s.c + 1]
         ELSE [totalGray |-> s.totalGray, count |-> s.count, c |-> s.c + 1],
         data, width, height, dotSize, x, y)

\* Math.round((avgGray / 255) * dotSize * dotSize * intensityFactor),
\* avgGray = totalGray / count
DotIntensity(totalGray, count, dotSize, intensity) ==
  MathRound(totalGray * dotSize * dotSize * intensity, count * 255 * 100)

\* A mutation of ShouldFill: the comparison is strict.
ShouldFillStrict(dotSize, dx, dy, dotIntensity) ==
  dotSize * dotSize - (dy * dotSize + dx) < dotIntensity

\* const shouldFill = dotSize * dotSize - (dy * dotSize + dx) <= dotIntensity
ShouldFill(dotSize, dx, dy, dotIntensity) ==
  dotSize * dotSize - (dy * dotSize + dx) <= dotIntensity

\* The second pair of inner loops, from cell s.c on.
RECURSIVE FillBlock(_, _, _, _, _, _, _)
FillBlock(s, width, height, dotSize, x, y, dotIntensity) ==
  IF s.c >= dotSize * dotSize THEN s.data
  ELSE FillBlock(
         [data |-> IF InImage(width, height, dotSize, x, y, s.c)
                   THEN SetGray(s.data, CellIndex(width, dotSize, x, y, s.c),
                                IF ShouldFill(dotSize, s.c % dotSize,
                                              s.c \div dotSize, dotIntensity)
                                THEN 0 ELSE 255)
                   ELSE s.data,
          c |-> s.c + 1],
         width, height, dotSize, x, y, dotIntensity)

\* The block at (x, y): average, fill count, fill.
HalftoneBlock(data, width, height, intensity, dotSize, x, y) ==
  LET sum == SumBlock([totalGray |-> 0, count |-> 0, c |-> 0],
                      data, width, height, dotSize, x, y)
      dotIntensity == DotIntensity(sum.totalGray, sum.count, dotSize, intensity)
  IN  FillBlock([data |-> data, c |-> 0], width, height, dotSize, x, y, dotIntensity)

\* for (y = 0; y < height; y += dotSize) for (x = 0; x < width; x += dotSize)
RECURSIVE halftoneLoop(_, _, _, _, _)
halftoneLoop(s, width, height, intensity, dotSize) ==
  IF s.y >= height THEN s.data
  ELSE IF s.x >= width
  THEN halftoneLoop([data |-> s.data, x |-> 0, y |-> s.y + dotSize],
                    width, height, intensity, dotSize)
  ELSE halftoneLoop(
         [data |-> HalftoneBlock(s.data, width, height, intensity, dotSize,
                                 s.x, s.y),
          x |-> s.x + dotSize, y |-> s.y],
         width, height, intensity, dotSize)

halftoneDithering(data, width, height, intensity, dotSize) ==
  halftoneLoop([data |-> data, x |-> 0, y |-> 0], width, height, intensity, dotSize)

-----------------------------------------------------------------------------
(* Pixel sort *)

\* Math.floor(Math.random() * n), the draw r in thousandths.
RandomBelow(r, n) == (r * n) \div 1000

\* The swap of the RGBA quadruples at i and newI: data[i..i+3] take the
\* samples read at newI, then data[newI..newI+3] take the ones saved from i.
\* newI is negative when the shift is (a negative intensity): the read of an
\* index outside the array gives undefined, stored as 0, and the write to it
\* does nothing.
SwapPixels(data, i, newI) ==
  [j \in DOMAIN data |->
     IF j \in newI..(newI + 3) THEN data[i + (j - newI)]
     ELSE IF j \in i..(i + 3)
          THEN (IF newI + (j - i) \in DOMAIN data THEN data[newI + (j - i)] ELSE 0)
          ELSE data[j]]

\* A mutation of SortTarget: the Math.min with width - 1 is missing.
UnclampedTarget(width, x, r, intensity) == x + (r * 5 * intensity) \div 100000

\* Math.min(width - 1, x + Math.floor(Math.random() * 5 * intensityFactor))
SortTarget(width, x, r, intensity) ==
  Min(width - 1, x + (r * 5 * intensity) \div 100000)

\* From pixel number s.p on; s.k counts the draws of Math.random made so far.
RECURSIVE pixelSortLoop(_, _, _, _, _, _)
pixelSortLoop(s, width, height, intensity, threshold, rand) ==
  IF s.p >= width * height THEN s.data
  ELSE LET x == s.p % width
           y == s.p \div width
           i == (y * width + x) * 4
           newX == SortTarget(width, x, MathRandom(rand, s.k), intensity)
           newI == (y * width + newX) * 4
       IN  pixelSortLoop(
             IF Gray(s.data, i) > threshold
             THEN [data |-> SwapPixels(s.data, i, newI), k |-> s.k + 1, p |-> s.p + 1]
             ELSE [data |-> s.data, k |-> s.k, p |-> s.p + 1],
             width, height, intensity, threshold, rand)

pixelSortDithering(data, width, height, intensity, threshold, rand) ==
  pixelSortLoop([data |-> data, k |-> 0, p |-> 0],
                width, height, intensity, threshold, rand)

-----------------------------------------------------------------------------
(* Databend *)

\* Math.floor((width * height * corruptionLevel * intensityFactor) / 1000)
CorruptionCount(width, height, intensity, corruptionLevel) ==
  MathFloor(width * height * corruptionLevel * intensity, 100000)

\* A block corruption that overwrites the green sample of each cell as well.
RECURSIVE CorruptBlockGreen(_, _, _, _, _, _, _, _)
CorruptBlockGreen(s, width, x, y, cols, rows, rand, k) ==
  IF s.c >= cols * rows THEN s.data
  ELSE LET blockIndex == ((y + (s.c \div cols)) * width + (x + (s.c % cols))) * 4
           value == RandomBelow(MathRandom(rand, k + s.c), 255)
       IN  CorruptBlockGreen(
             [data |-> [s.data EXCEPT ![blockIndex] = value,
                                      ![blockIndex + 1] = value],
              c |-> s.c + 1],
             width, x, y, cols, rows, rand, k)

\* case 2: the cells of the block, by-major, from cell s.c on; the cell number c
\* takes draw number k + c.
RECURSIVE CorruptBlock(_, _, _, _, _, _, _, _)
CorruptBlock(s, width, x, y, cols, rows, rand, k) ==
  IF s.c >= cols * rows THEN s.data
  ELSE LET blockIndex == ((y + (s.c \div cols)) * width + (x + (s.c % cols))) * 4
       IN  CorruptBlock(
             [data |-> [s.data EXCEPT ![blockIndex] =
                          RandomBelow(MathRandom(rand, k + s.c), 255)],
              c |-> s.c + 1],
             width, x, y, cols, rows, rand, k)

\* One corruption event, the draws taken from number k on:
\* [data |-> the array after the event, k |-> the draws made so far].
CorruptionEvent(data, width, height, rand, k) ==
  LET x == RandomBelow(MathRandom(rand, k), width)
      y == RandomBelow(MathRandom(rand, k + 1), height)
      pixelIndex == (y * width + x) * 4
      corruptionType == RandomBelow(MathRandom(rand, k + 2), 4)
      r == MathRandom(rand, k + 3)
  IN  CASE corruptionType = 0 ->
             [data |-> [data EXCEPT ![pixelIndex] = RandomBelow(r, 255)],
              k |-> k + 4]
        [] corruptionType = 1 ->
             LET shift == RandomBelow(r, 10) - 5
             IN  [data |-> IF x + shift >= 0 /\ x + shift < width
                           THEN [data EXCEPT ![pixelIndex] =
                                   data[(y * width + (x + shift)) * 4]]
                           ELSE data,
                  k |-> k + 4]
        [] corruptionType = 2 ->
             LET blockSize == RandomBelow(r, 5) + 1
                 cols == Min(blockSize, width - x)
                 rows == Min(blockSize, height - y)
             IN  [data |-> CorruptBlock([data |-> data, c |-> 0], width, x, y,
                                            cols, rows, rand, k + 4),
                  k |-> k + 4 + cols * rows]
        [] corruptionType = 3 ->
             LET sourceX == RandomBelow(r, width)
                 sourceY == RandomBelow(MathRandom(rand, k + 4), height)
             IN  [data |-> [data EXCEPT ![pixelIndex] =
                             data[(sourceY * width + sourceX) * 4]],
                  k |-> k + 5]

\* The indices one corruption event assigns to (the left sides of its
\* data[...] = ... statements), the draws taken from number k on.
CorruptionWrites(width, height, rand, k) ==
  LET x == RandomBelow(MathRandom(rand, k), width)
      y == RandomBelow(MathRandom(rand, k + 1), height)
      pixelIndex == (y * width + x) * 4
      corruptionType == RandomBelow(MathRandom(rand, k + 2), 4)
      r == MathRandom(rand, k + 3)
  IN  CASE corruptionType = 0 -> {pixelIndex}
        [] corruptionType = 1 ->
             LET shift == RandomBelow(r, 10) - 5
             IN  IF x + shift >= 0 /\ x + shift < width THEN {pixelIndex} ELSE {}
        [] corruptionType = 2 ->
             LET blockSize == RandomBelow(r, 5) + 1
             IN  {((y + by) * width + (x + bx)) * 4 :
                    by \in {b \in 0..(blockSize - 1) : y + b < height},
                    bx \in {b \in 0..(blockSize - 1) : x + b < width}}
        [] corruptionType = 3 -> {pixelIndex}

\* The indices the events from number s.e on assign to, added to s.writes.
RECURSIVE databendWrites(_, _, _, _, _)
databendWrites(s, width, height, corruptionCount, rand) ==
  IF s.e >= corruptionCount THEN s.writes
  ELSE LET after == CorruptionEvent(s.data, width, height, rand, s.k)
       IN  databendWrites(
             [data |-> after.data, k |-> after.k, e |-> s.e + 1,
              writes |-> s.writes \cup CorruptionWrites(width, height, rand, s.k)],
             width, height, corruptionCount, rand)

\* for (let i = 0; i < corruptionCount; i++), from event number s.e on.
RECURSIVE databendLoop(_, _, _, _, _)
databendLoop(s, width, height, corruptionCount, rand) ==
  IF s.e >= corruptionCount THEN s.data
  ELSE LET after == CorruptionEvent(s.data, width, height, rand, s.k)
       IN  databendLoop([data |-> after.data, k |-> after.k, e |-> s.e + 1],
                        width, height, corruptionCount, rand)

databendDithering(data, width, height, intensity, corruptionLevel, rand) ==
  databendLoop([data |-> data, k |-> 0, e |-> 0], width, height,
               CorruptionCount(width, height, intensity, corruptionLevel), rand)

-----------------------------------------------------------------------------
(* Stipple *)

\* for (let i = 0; i < data.length; i += 4) data[i] = data[i + 1] = data[i + 2] = 255
ClearToWhite(data) ==
  [i \in DOMAIN data |-> IF i % 4 = 3 THEN data[i] ELSE 255]

\* Math.floor((128 - gray) / 128 * density * intensityFactor)
StippleDotSize(gray, density, intensity) ==
  MathFloor((128 - gray) * density * intensity, 12800)

\* The dot loops at the sample point (x, y), from cell s.c on
\* (dx = c % dotSize, dy = c \div dotSize).
RECURSIVE PaintDot(_, _, _, _, _, _)
PaintDot(s, width, height, dotSize, x, y) ==
  IF s.c >= dotSize * dotSize THEN s.data
  ELSE PaintDot(
         [data |-> IF InImage(width, height, dotSize, x, y, s.c)
                   THEN SetGray(s.data, CellIndex(width, dotSize, x, y, s.c), 0)
                   ELSE s.data,
          c |-> s.c + 1],
         width, height, dotSize, x, y)

\* The body of the grid loops at the sample point (x, y): the gray is read from
\* the array being painted.
StipplePoint(data, width, height, intensity, density, x, y) ==
  LET gray == Gray(data, (y * width + x) * 4)
      dotSize == StippleDotSize(gray, density, intensity)
  IN  IF gray < 128
      THEN PaintDot([data |-> data, c |-> 0], width, height, dotSize, x, y)
      ELSE data

\* for (y = 0; y < height; y += density) for (x = 0; x < width; x += density)
RECURSIVE stippleLoop(_, _, _, _, _)
stippleLoop(s, width, height, intensity, density) ==
  IF s.y >= height THEN s.data
  ELSE IF s.x >= width
  THEN stippleLoop([data |-> s.data, x |-> 0, y |-> s.y + density],
                   width, height, intensity, density)
  ELSE stippleLoop(
         [data |-> StipplePoint(s.data, width, height, intensity, density,
                                s.x, s.y),
          x |-> s.x + density, y |-> s.y],
         width, height, intensity, density)

stippleDithering(data, width, height, intensity, density) ==
  stippleLoop([data |-> ClearToWhite(data), x |-> 0, y |-> 0],
              width, height, intensity, density)

-----------------------------------------------------------------------------
(* The algorithm registry *)

ALGORITHM_CATEGORIES ==
  <<"Error Diffusion", "Ordered Dithering", "Blue Noise", "Random",
    "Halftone", "Glitch", "Artistic">>

\* [min, max, default] of one parameter of a descriptor
Schema(min, max, default) == [min |-> min, max |-> max, default |-> default]

IntensityOnly == [n \in {"intensity"} |-> Schema(0, 100, 100)]

IntensityAnd(name, schema) ==
  [n \in {"intensity", name} |->
     IF n = "intensity" THEN Schema(0, 100, 100) ELSE schema]

\* A mutation of Descriptor: the entries are filed under their category's
\* name, so that the registry's identifiers are not those of the switch.
DescriptorByCategory(id, category, parameters) ==
  [id |-> category, category |-> category, parameters |-> parameters]

Descriptor(id, category, parameters) ==
  [id |-> id, category |-> category, parameters |-> parameters]

DITHERING_ALGORITHMS ==
  << Descriptor("floyd-steinberg", "Error Diffusion", IntensityOnly),
     Descriptor("atkinson", "Error Diffusion", IntensityOnly),
     Descriptor("stucki", "Error Diffusion", IntensityOnly),
     Descriptor("burkes", "Error Diffusion", IntensityOnly),
     Descriptor("sierra", "Error Diffusion", IntensityOnly),
     Descriptor("bayer-2x2", "Ordered Dithering",
                IntensityAnd("threshold", Schema(0, 255, 128))),
     Descriptor("bayer-4x4", "Ordered Dithering",
                IntensityAnd("threshold", Schema(0, 255, 128))),
     Descriptor("bayer-8x8", "Ordered Dithering",
                IntensityAnd("threshold", Schema(0, 255, 128))),
     Descriptor("bayer-16x16", "Ordered Dithering",
                IntensityAnd("threshold", Schema(0, 255, 128))),
     Descriptor("blue-noise", "Blue Noise",
                IntensityAnd("tileSize", Schema(32, 256, 128))),
     Descriptor("random-white", "Random",
                IntensityAnd("seed", Schema(0, 9999, 1234))),
     Descriptor("halftone", "Halftone",
                IntensityAnd("dotSize", Schema(1, 10, 3))),
     Descriptor("pixel-sort", "Glitch",
                [n \in {"intensity", "threshold"} |->
                   IF n = "intensity" THEN Schema(0, 100, 50)
                   ELSE Schema(0, 255, 128)]),
     Descriptor("databend", "Glitch",
                [n \in {"intensity", "corruption"} |->
                   IF n = "intensity" THEN Schema(0, 100, 30)
                   ELSE Schema(1, 10, 3)]),
     Descriptor("stipple", "Artistic",
                IntensityAnd("density", Schema(10, 200, 50))) >>

RegisteredIds == {DITHERING_ALGORITHMS[k].id : k \in DOMAIN DITHERING_ALGORITHMS}

\* getAlgorithmById(id), for a registered id
getAlgorithmById(id) ==
  DITHERING_ALGORITHMS[CHOOSE k \in DOMAIN DITHERING_ALGORITHMS :
                         /\ DITHERING_ALGORITHMS[k].id = id
                         /\ \A j \in 1..(k - 1) : DITHERING_ALGORITHMS[j].id # id]

-----------------------------------------------------------------------------
(* processImage: options, copy, dispatch *)

\* const { name = fallback } = options: the fallback only when name is absent.
Destructured(options, name, fallback) ==
  IF name \in DOMAIN options THEN options[name] ELSE fallback

\* otherOptions.name || fallback: the fallback when name is absent or is 0.
OrElse(options, name, fallback) ==
  IF name \in DOMAIN options /\ options[name] # 0 THEN options[name] ELSE fallback

\* A mutation of NewUint8ClampedArray: no copy is made, the routines work on
\* the caller's array.
SameUint8ClampedArray(h, src) == [ref |-> src, heap |-> h]

\* A mutation of NewUint8ClampedArray: the engine keeps its array from one call
\* to the next and copies the input only when the size has changed.
ReusedUint8ClampedArray(h, src) ==
  [ref |-> "processedData",
   heap |-> IF DOMAIN h["processedData"] = DOMAIN h[src] THEN h
            ELSE [h EXCEPT !["processedData"] = h[src]]]

\* new ImageData(new Uint8ClampedArray(imageData.data), ...): a fresh array
\* holding the samples of src; the reference to it and the heap that has it.
NewUint8ClampedArray(h, src) ==
  [ref |-> "processedData", heap |-> [h EXCEPT !["processedData"] = h[src]]]

\* The switch of processImage: the routine a case calls and the arguments it
\* passes after (data, width, height); "none" for the default case.
Dispatch(algorithmId, intensity, threshold, otherOptions) ==
  CASE algorithmId = "floyd-steinberg" ->
         [routine |-> "floydSteinbergDithering",
          args |-> [intensity |-> intensity]]
    [] algorithmId = "atkinson" ->
         [routine |-> "atkinsonDithering", args |-> [intensity |-> intensity]]
    [] algorithmId = "stucki" ->
         [routine |-> "stuckiDithering", args |-> [intensity |-> intensity]]
    [] algorithmId = "burkes" ->
         [routine |-> "burkesDithering", args |-> [intensity |-> intensity]]
    [] algorithmId = "sierra" ->
         [routine |-> "sierraDithering", args |-> [intensity |-> intensity]]
    [] algorithmId = "bayer-2x2" ->
         [routine |-> "bayerDithering",
          args |-> [intensity |-> intensity, threshold |-> threshold, size |-> 2]]
    [] algorithmId = "bayer-4x4" ->
         [routine |-> "bayerDithering",
          args |-> [intensity |-> intensity, threshold |-> threshold, size |-> 4]]
    [] algorithmId = "bayer-8x8" ->
         [routine |-> "bayerDithering",
          args |-> [intensity |-> intensity, threshold |-> threshold, size |-> 8]]
    [] algorithmId = "bayer-16x16" ->
         [routine |-> "bayerDithering",
          args |-> [intensity |-> intensity, threshold |-> threshold, size |-> 16]]
    [] algorithmId = "blue-noise" ->
         [routine |-> "blueNoiseDithering",
          args |-> [intensity |-> intensity,
                    tileSize |-> OrElse(otherOptions, "tileSize", 128)]]
    [] algorithmId = "random-white" ->
         [routine |-> "randomDithering",
          args |-> [intensity |-> intensity,
                    seed |-> OrElse(otherOptions, "seed", 1234)]]
    [] algorithmId = "halftone" ->
         [routine |-> "halftoneDithering",
          args |-> [intensity |-> intensity,
                    dotSize |-> OrElse(otherOptions, "dotSize", 3)]]
    [] algorithmId = "pixel-sort" ->
         [routine |-> "pixelSortDithering",
          args |-> [intensity |-> intensity, threshold |-> threshold]]
    [] algorithmId = "databend" ->
         [routine |-> "databendDithering",
          args |-> [intensity |-> intensity,
                    corruptionLevel |-> OrElse(otherOptions, "corruption", 3)]]
    [] algorithmId = "stipple" ->
         [routine |-> "stippleDithering",
          args |-> [intensity |-> intensity,
                    density |-> OrElse(otherOptions, "density", 50)]]
    [] OTHER ->
         [routine |-> "none", args |-> [intensity |-> intensity]]

\* The array after the routine has run on it.
Invoke(routine, args, data, width, height, rand) ==
  CASE routine = "floydSteinbergDithering" ->
         errorDiffusion(data, width, height, args.intensity, FloydSteinbergKernel)
    [] routine = "atkinsonDithering" ->
         errorDiffusion(data, width, height, args.intensity, AtkinsonKernel)
    [] routine = "stuckiDithering" ->
         errorDiffusion(data, width, height, args.intensity, StuckiKernel)
    [] routine = "burkesDithering" ->
         errorDiffusion(data, width, height, args.intensity, BurkesKernel)
    [] routine = "sierraDithering" ->
         errorDiffusion(data, width, height, args.intensity, SierraKernel)
    [] routine = "bayerDithering" ->
         bayerDithering(data, width, height, args.intensity, args.threshold, args.size)
    [] routine = "blueNoiseDithering" ->
         blueNoiseDithering(data, width, height, args.intensity, args.tileSize, rand)
    [] routine = "randomDithering" ->
         randomDithering(data, width, height, args.intensity, args.seed)
    [] routine = "halftoneDithering" ->
         halftoneDithering(data, width, height, args.intensity, args.dotSize)
    [] routine = "pixelSortDithering" ->
         pixelSortDithering(data, width, height, args.intensity, args.threshold, rand)
    [] routine = "databendDithering" ->
         databendDithering(data, width, height, args.intensity,
                           args.corruptionLevel, rand)
    [] routine = "stippleDithering" ->
         stippleDithering(data, width, height, args.intensity, args.density)
    [] OTHER -> data

\* A mutation of Warnings: the default case is silent.
NoWarnings(routine, algorithmId) == << >>

\* console.warn(`Unknown algorithm: ${algorithmId}`) in the default case
Warnings(routine, algorithmId) ==
  IF routine = "none" THEN << <<"Unknown algorithm", algorithmId>> >> ELSE << >>

NoOptions == [n \in {} |-> 0]
NoCall == [algorithmId |-> "", options |-> NoOptions, routine |-> "",
           args |-> NoOptions]
NoResult == [data |-> "", width |-> 0, height |-> 0]

\* processImage(imageData, algorithmId, options), rand the run of Math.random
\* during the call.
processImage(algorithmId, options, rand) ==
  LET intensity == Destructured(options, "intensity", 100)
      threshold == Destructured(options, "threshold", 128)
      processedData == NewUint8ClampedArray(heap, imageData.data)
      case == Dispatch(algorithmId, intensity, threshold, options)
      out == Invoke(case.routine, case.args, processedData.heap[processedData.ref],
                    imageData.width, imageData.height, rand)
  IN  /\ before' = heap[imageData.data]
      /\ heap' = [processedData.heap EXCEPT ![processedData.ref] = out]
      /\ call' = [algorithmId |-> algorithmId, options |-> options,
                  routine |-> case.routine, args |-> case.args]
      /\ consoleWarn' = Warnings(case.routine, algorithmId)
      /\ returned' = [data |-> processedData.ref,
                      width |-> imageData.width, height |-> imageData.height]
      /\ UNCHANGED imageData


-----------------------------------------------------------------------------
(* The inputs of the model *)

\* The RGBA quadruples the images are made of: black, the grey at the
\* threshold, a colour of luminance 145 and white, with three different
\* alphas.  No sample the routines compute from them puts
\* 0.299 R + 0.587 G + 0.114 B half-way between two integers, so Gray rounds
\* as the double computation does.
Palette ==
  << <<0, 0, 0, 255>>, <<128, 128, 128, 255>>,
     <<140, 150, 130, 128>>, <<255, 255, 255, 0>> >>

\* The width x height image whose pixel (x, y) has the colour number
\* (a * x + b * y + c) mod 4 of the palette: uniform (a = b = 0), striped,
\* or diagonal.
PatternImage(width, height, a, b, c) ==
  [i \in 0..(4 * width * height - 1) |->
     LET x == (i \div 4) % width
         y == (i \div 4) \div width
     IN  Palette[((a * x + b * y + c) % Len(Palette)) + 1][(i % 4) + 1]]

\* The opaque white width x height image with one black pixel, number p.
SpotImage(width, height, p) ==
  [i \in 0..(4 * width * height - 1) |->
     IF i % 4 = 3 THEN 255 ELSE IF i \div 4 = p THEN 0 ELSE 255]

\* The values a caller passes for each parameter; the intensities are
\* multiples of 25, for which intensity / 100 is exact in binary.
OptionValues ==
  [intensity |-> {0, 50, 100}, threshold |-> {0, 200}, seed |-> {0, 7},
   tileSize |-> {0, 2}, dotSize |-> {0, 2}, density |-> {0, 100},
   corruption |-> {0, 10}]

\* The values passed in SpecRepeat and in SpecDatabend.
RepeatValues == [intensity |-> {50}, seed |-> {7}]
BendValues == [intensity |-> {0, 50, 100}, corruption |-> {0, 10}]

\* Every options object over the given parameter names: each name absent or
\* set to one of its values.
OptionsOver(names, values) ==
  LET all == UNION {values[n] : n \in names}
  IN  UNION {{o \in [present -> all] : \A n \in present : o[n] \in values[n]} :
               present \in SUBSET names}

AlgorithmIds == RegisteredIds \cup {"unknown"}

\* The options a caller passes with an id: over the parameters of its schema
\* that have values.
OptionsFor(algorithmId, values) ==
  IF algorithmId \in RegisteredIds
  THEN OptionsOver(DOMAIN getAlgorithmById(algorithmId).parameters
                     \cap DOMAIN values, values)
  ELSE OptionsOver({"intensity"}, values)

\* The runs of Math.random whose draws are all the same.
ConstantTapes == {rand \in Tapes : \A k \in DOMAIN rand : rand[k] = rand[0]}

\* The runs of Math.random a call may see, out of tapes; one run for the
\* routines that never call it.
TapesFor(algorithmId, tapes) ==
  IF algorithmId \in {"blue-noise", "pixel-sort", "databend"} THEN tapes
  ELSE {NoTape}

\* The ids whose routines draw nothing from Math.random.
SeededIds == RegisteredIds \ {"blue-noise", "pixel-sort", "databend"}

-----------------------------------------------------------------------------
(* The state machine *)

NoKept == [call |-> NoCall, input |-> NoOptions, output |-> NoOptions, later |-> 0]

\* No call is inside its grid loops.
NoLoop == [active |-> FALSE, step |-> 0, x |-> 0, y |-> 0]

\* No algorithm is selected.
Null == "null"

\* processedImage when there is no result: the empty string of the source.
NoImage == << >>

\* No call's result is displayed.
NoShown ==
  [serial |-> 0, algorithm |-> Null, image |-> "", parameters |-> NoOptions]

\* The component DitherBoy after its first render.
InitApp ==
  /\ selectedAlgorithm = Null
  /\ algorithmParameters = NoOptions
  /\ uploadedFiles = << >>
  /\ currentImage = ""
  /\ processedImage = NoImage
  /\ isProcessing = FALSE
  /\ uploadResetToken = 0
  /\ timeoutId = FALSE
  /\ readers = {}
  /\ inFlight = {}
  /\ started = 0
  /\ shown = NoShown
  /\ downloads = 0

InitWith(image, width, height) ==
  /\ InitApp
  /\ imageData = [data |-> "imageData", width |-> width, height |-> height]
  /\ heap = [ref \in {"imageData", "processedData"} |->
               IF ref = "imageData" THEN image ELSE NoOptions]
  /\ before = image
  /\ call = NoCall
  /\ returned = NoResult
  /\ consoleWarn = << >>
  /\ kept = NoKept
  /\ loop = NoLoop

\* Some caller calls processImage on the image with an id of ids, options
\* over values and a run of Math.random out of tapes.
Call(ids, values, tapes) ==
  \E algorithmId \in ids :
    \E options \in OptionsFor(algorithmId, values),
       rand \in TapesFor(algorithmId, tapes) :
      processImage(algorithmId, options, rand)

\* Spec: every call of processImage on every patterned image, one call per
\* image (the engine keeps nothing from one call to the next; SpecRepeat has
\* the sequences of calls).
Init ==
  \E width \in 1..MaxWidth, height \in 1..MaxHeight,
     a \in 0..1, b \in 0..1, c \in 0..(Len(Palette) - 1) :
    InitWith(PatternImage(width, height, a, b, c), width, height)

ProcessImage ==
  /\ returned = NoResult
  /\ Call(AlgorithmIds, OptionValues, Tapes)
  /\ UNCHANGED <<kept, loop>>
  /\ UNCHANGED appVars

Next == ProcessImage

Spec == Init /\ [][Next]_vars

\* SpecRepeat: sequences of calls on the same image, one of the two diagonal
\* images that have the colour of luminance 145 next to another colour; the
\* caller may retain a call and its output, and later calls are counted (up
\* to MaxLater).
InitRepeat ==
  \E c \in 1..2 :
    InitWith(PatternImage(RepeatSide, RepeatSide, 1, 1, c), RepeatSide, RepeatSide)

Remember ==
  /\ returned # NoResult
  /\ kept' = [call |-> call, input |-> before, output |-> heap[returned.data],
              later |-> 0]
  /\ UNCHANGED <<imageData, heap, before, call, returned, consoleWarn, loop>>
  /\ UNCHANGED appVars

ProcessAgain ==
  /\ Call(SeededIds \cup {"blue-noise"}, RepeatValues, ConstantTapes)
  /\ kept' = IF kept = NoKept THEN kept
             ELSE [kept EXCEPT !.later = Min(kept.later + 1, MaxLater)]
  /\ UNCHANGED loop
  /\ UNCHANGED appVars

NextRepeat == ProcessAgain \/ Remember

SpecRepeat == InitRepeat /\ [][NextRepeat]_vars

\* SpecWide: one call on a larger image, with intensities outside 0..100 as
\* well: the 4 x 4 images of one colour and the 5 x 3 patterned images, on
\* which the pixel (2, 0) has every neighbour of every kernel inside the
\* image.  random-white is left to Spec: its samples are the literals 0 and
\* 255, and the generator's threshold arithmetic is modelled for intensities
\* of 0..100.
WideValues ==
  [intensity |-> {-100, 50, 100, 400}, threshold |-> {128, 300},
   tileSize |-> {2}, dotSize |-> {1, 2}, density |-> {2}, corruption |-> {10}]

InitWide ==
  \/ \E c \in 0..(Len(Palette) - 1) :
       InitWith(PatternImage(4, 4, 0, 0, c), 4, 4)
  \/ \E a \in 0..1, b \in 0..1, c \in 0..(Len(Palette) - 1) :
       InitWith(PatternImage(WideWidth, WideHeight, a, b, c), WideWidth, WideHeight)

ProcessWide ==
  /\ returned = NoResult
  /\ Call(AlgorithmIds \ {"random-white"}, WideValues, ConstantTapes)
  /\ UNCHANGED <<kept, loop>>
  /\ UNCHANGED appVars

NextWide == ProcessWide

SpecWide == InitWide /\ [][NextWide]_vars

\* SpecLoops: a call of halftone or stipple taken one iteration of its grid
\* loops at a time,
\*   for (let y = 0; y < height; y += step)
\*     for (let x = 0; x < width; x += step) { body }
\* with step the dotSize or density the routine received, negative values
\* included (the engine applies the options as given).
LoopValues == [intensity |-> {100}, dotSize |-> {-1, 1, 2}, density |-> {-1, 1, 2}]

InitLoops ==
  \E a \in 0..1, b \in 0..1, c \in 0..(Len(Palette) - 1) :
    InitWith(PatternImage(MaxWidth, MaxHeight, a, b, c), MaxWidth, MaxHeight)

\* processImage up to the first test of the outer loop: the copy, the switch,
\* and for stipple the clear to white.
EnterLoop ==
  /\ call = NoCall
  /\ \E algorithmId \in {"halftone", "stipple"} :
       \E options \in OptionsFor(algorithmId, LoopValues) :
         LET intensity == Destructured(options, "intensity", 100)
             threshold == Destructured(options, "threshold", 128)
             processedData == NewUint8ClampedArray(heap, imageData.data)
             case == Dispatch(algorithmId, intensity, threshold, options)
             data == processedData.heap[processedData.ref]
         IN  /\ before' = heap[imageData.data]
             /\ heap' = [processedData.heap EXCEPT ![processedData.ref] =
                           IF case.routine = "stippleDithering"
                           THEN ClearToWhite(data) ELSE data]
             /\ call' = [algorithmId |-> algorithmId, options |-> options,
                         routine |-> case.routine, args |-> case.args]
             /\ loop' = [active |-> TRUE,
                         step |-> IF case.routine = "stippleDithering"
                                  THEN case.args.density ELSE case.args.dotSize,
                         x |-> 0, y |-> 0]
  /\ UNCHANGED <<imageData, returned, consoleWarn, kept>>
  /\ UNCHANGED appVars

\* One iteration of the inner loop: the body at (x, y), then x += step.  With
\* a step below 1 the loops over dx and dy make no iteration, so the body
\* writes nothing (count is 0 in halftone; in stipple the grey read from the
\* cleared buffer, or from outside it, is never below 128).
InnerStep ==
  /\ loop.active
  /\ loop.y < imageData.height
  /\ loop.x < imageData.width
  /\ loop.x + loop.step >= -MaxRetreat
  /\ heap' = [heap EXCEPT !["processedData"] =
                IF loop.step < 1 THEN @
                ELSE IF call.routine = "stippleDithering"
                THEN StipplePoint(@, imageData.width, imageData.height,
                                  call.args.intensity, loop.step, loop.x, loop.y)
                ELSE HalftoneBlock(@, imageData.width, imageData.height,
                                   call.args.intensity, loop.step, loop.x, loop.y)]
  /\ loop' = [loop EXCEPT !.x = @ + loop.step]
  /\ UNCHANGED <<imageData, before, call, returned, consoleWarn, kept>>
  /\ UNCHANGED appVars

\* The inner loop has ended (x >= width): y += step, and x starts from 0.
OuterStep ==
  /\ loop.active
  /\ loop.y < imageData.height
  /\ loop.x >= imageData.width
  /\ loop' = [loop EXCEPT !.x = 0, !.y = @ + loop.step]
  /\ UNCHANGED <<imageData, heap, before, call, returned, consoleWarn, kept>>
  /\ UNCHANGED appVars

\* The outer loop has ended (y >= height): the routine and processImage return.
Return ==
  /\ loop.active
  /\ loop.y >= imageData.height
  /\ returned' = [data |-> "processedData",
                  width |-> imageData.width, height |-> imageData.height]
  /\ loop' = [loop EXCEPT !.active = FALSE]
  /\ UNCHANGED <<imageData, heap, before, call, consoleWarn, kept>>
  /\ UNCHANGED appVars

NextLoops == EnterLoop \/ InnerStep \/ OuterStep \/ Return

SpecLoops == InitLoops /\ [][NextLoops]_vars

\* SpecDatabend: one call of databend on an image large enough for
\* corruption events, white with one black pixel.
InitDatabend ==
  \E p \in {0, BendWidth + 1, BendWidth * BendHeight - 1} :
    InitWith(SpotImage(BendWidth, BendHeight, p), BendWidth, BendHeight)

Databend ==
  /\ returned = NoResult
  /\ Call({"databend"}, BendValues, Tapes)
  /\ UNCHANGED <<kept, loop>>
  /\ UNCHANGED appVars

NextDatabend == Databend

SpecDatabend == InitDatabend /\ [][NextDatabend]_vars

-----------------------------------------------------------------------------
(* The calling application: the component DitherBoy *)

\* How many calls of the component's processImage, clears and exports a run
\* of the model has.
MaxCalls == 2
MaxClears == 1
MaxDownloads == 1

\* The files a user drops: two images and a file that is not an image.
AppFiles == {"a.png", "b.png", "corrupt.png"}
DecodableFiles == {"a.png", "b.png"}

\* ditheringEngine.imageToImageData(img) of a decodable file's image: two
\* opaque pixels, one of them black.
AppImage(file) ==
  [data |-> SpotImage(2, 1, IF file = "a.png" THEN 0 ELSE 1),
   width |-> 2, height |-> 1]

\* The algorithm card the user clicks.
AppAlgorithms == {"floyd-steinberg"}

\* handleAlgorithmSelect: params[key] = param.default for every parameter.
DefaultParameters(algorithm) ==
  LET parameters == getAlgorithmById(algorithm).parameters
  IN  [key \in DOMAIN parameters |-> parameters[key].default]

\* The values the slider of a parameter is dragged to.
SliderValues(algorithm, key) ==
  LET param == getAlgorithmById(algorithm).parameters[key]
  IN  {param.min, param.default}

\* The call of the component's processImage that begins now: what its
\* closure holds.
ThisCall ==
  [serial |-> started + 1, algorithm |-> selectedAlgorithm,
   image |-> currentImage, parameters |-> algorithmParameters]

\* processedCanvas.toDataURL of ditheringEngine.processImage(imageData,
\* selectedAlgorithm.id, algorithmParameters) in the call c; the image is
\* opaque, so the canvas keeps its samples.
ProcessedDataUrl(c) ==
  LET image == AppImage(c.image)
      intensity == Destructured(c.parameters, "intensity", 100)
      threshold == Destructured(c.parameters, "threshold", 128)
      case == Dispatch(c.algorithm, intensity, threshold, c.parameters)
  IN  Invoke(case.routine, case.args, image.data, image.width, image.height,
             NoTape)

\* The debounce effect after a render: when one of its dependencies has
\* changed, the cleanup clears the pending timer and a new one is set if an
\* algorithm and an image are present.
DebounceEffect(changed, algorithm, image) ==
  timeoutId' = IF changed THEN algorithm # Null /\ image # "" ELSE timeoutId

\* processImage of the component up to its first await: the early return,
\* setIsProcessing(true), and the load of the image begun.
BeginProcessImage ==
  /\ selectedAlgorithm # Null
  /\ currentImage # ""
  /\ started < MaxCalls
  /\ isProcessing' = TRUE
  /\ started' = started + 1
  /\ inFlight' = inFlight \cup {ThisCall}

InitDitherBoy == InitWith(AppImage("a.png").data, 2, 1)

\* handleFilesAccepted(files): no file, or one.
HandleFilesAccepted ==
  \E files \in {<< >>} \cup {<<file>> : file \in AppFiles} :
    /\ uploadedFiles' = files
    /\ readers' = IF Len(files) > 0 THEN readers \cup {files[1]} ELSE readers
    /\ UNCHANGED <<selectedAlgorithm, algorithmParameters, currentImage,
                   processedImage, isProcessing, uploadResetToken, timeoutId,
                   inFlight, started, shown, downloads>>
    /\ UNCHANGED engineVars

\* reader.onload of a file being read.
ReaderOnload ==
  \E file \in readers :
    /\ readers' = readers \ {file}
    /\ currentImage' = file
    /\ processedImage' = NoImage
    /\ shown' = NoShown
    /\ DebounceEffect(file # currentImage, selectedAlgorithm, file)
    /\ UNCHANGED <<selectedAlgorithm, algorithmParameters, uploadedFiles,
                   isProcessing, uploadResetToken, inFlight, started, downloads>>
    /\ UNCHANGED engineVars

\* handleAlgorithmSelect(algorithm)
HandleAlgorithmSelect ==
  \E algorithm \in AppAlgorithms :
    /\ selectedAlgorithm' = algorithm
    /\ algorithmParameters' = DefaultParameters(algorithm)
    /\ DebounceEffect(TRUE, algorithm, currentImage)
    /\ UNCHANGED <<uploadedFiles, currentImage, processedImage, isProcessing,
                   uploadResetToken, readers, inFlight, started, shown,
                   downloads>>
    /\ UNCHANGED engineVars

\* handleParameterChange(paramName, value), from a slider of the selected
\* algorithm.
HandleParameterChange ==
  /\ selectedAlgorithm # Null
  /\ \E paramName \in DOMAIN getAlgorithmById(selectedAlgorithm).parameters :
       \E value \in SliderValues(selectedAlgorithm, paramName) :
         algorithmParameters' =
           [key \in DOMAIN algorithmParameters \cup {paramName} |->
              IF key = paramName THEN value ELSE algorithmParameters[key]]
  /\ DebounceEffect(TRUE, selectedAlgorithm, currentImage)
  /\ UNCHANGED <<selectedAlgorithm, uploadedFiles, currentImage,
                 processedImage, isProcessing, uploadResetToken, readers,
                 inFlight, started, shown, downloads>>
  /\ UNCHANGED engineVars

\* handleClear
HandleClear ==
  /\ ~isProcessing
  /\ uploadResetToken < MaxClears
  /\ selectedAlgorithm' = Null
  /\ algorithmParameters' = NoOptions
  /\ uploadedFiles' = << >>
  /\ currentImage' = ""
  /\ processedImage' = NoImage
  /\ shown' = NoShown
  /\ uploadResetToken' = uploadResetToken + 1
  /\ DebounceEffect(TRUE, Null, "")
  /\ UNCHANGED <<isProcessing, readers, inFlight, started, downloads>>
  /\ UNCHANGED engineVars

\* The debounce timer fires, 300 ms after the render that set it:
\* processImage() of that render.
TimeoutFires ==
  /\ timeoutId
  /\ timeoutId' = FALSE
  /\ BeginProcessImage
  /\ UNCHANGED <<selectedAlgorithm, algorithmParameters, uploadedFiles,
                 currentImage, processedImage, uploadResetToken, readers,
                 shown, downloads>>
  /\ UNCHANGED engineVars

\* handleProcessClick
HandleProcessClick ==
  /\ ~isProcessing
  /\ BeginProcessImage
  /\ UNCHANGED <<selectedAlgorithm, algorithmParameters, uploadedFiles,
                 currentImage, processedImage, uploadResetToken, timeoutId,
                 readers, shown, downloads>>
  /\ UNCHANGED engineVars

\* img.onload of a call in flight: the rest of processImage, from
\* imageToImageData to setProcessedImage(dataUrl) and the finally block.
ImgOnload ==
  \E c \in inFlight :
    /\ c.image \in DecodableFiles
    /\ inFlight' = inFlight \ {c}
    /\ processedImage' = ProcessedDataUrl(c)
    /\ shown' = c
    /\ isProcessing' = FALSE
    /\ UNCHANGED <<selectedAlgorithm, algorithmParameters, uploadedFiles,
                   currentImage, uploadResetToken, timeoutId, readers, started,
                   downloads>>
    /\ UNCHANGED engineVars

\* img.onerror of a call in flight: the catch block and the finally block.
ImgOnerror ==
  \E c \in inFlight :
    /\ c.image \notin DecodableFiles
    /\ inFlight' = inFlight \ {c}
    /\ isProcessing' = FALSE
    /\ UNCHANGED <<selectedAlgorithm, algorithmParameters, uploadedFiles,
                   currentImage, processedImage, uploadResetToken, timeoutId,
                   readers, started, shown, downloads>>
    /\ UNCHANGED engineVars

\* handleExportResult
HandleExportResult ==
  /\ processedImage # NoImage
  /\ ~isProcessing
  /\ downloads < MaxDownloads
  /\ downloads' = downloads + 1
  /\ UNCHANGED <<selectedAlgorithm, algorithmParameters, uploadedFiles,
                 currentImage, processedImage, isProcessing, uploadResetToken,
                 timeoutId, readers, inFlight, started, shown>>
  /\ UNCHANGED engineVars

NextApp ==
  \/ HandleFilesAccepted
  \/ ReaderOnload
  \/ HandleAlgorithmSelect
  \/ HandleParameterChange
  \/ HandleClear
  \/ TimeoutFires
  \/ HandleProcessClick
  \/ ImgOnload
  \/ ImgOnerror
  \/ HandleExportResult

SpecApp == InitDitherBoy /\ [][NextApp]_vars

-----------------------------------------------------------------------------
(* Properties of processImage *)

\* The samples of the array the most recent call returned.
Output == heap[returned.data]

\* The pixel numbers of the image.
Pixels == 0..(imageData.width * imageData.height - 1)

HasReturned == returned # NoResult

ErrorDiffusionRoutines ==
  {"floydSteinbergDithering", "atkinsonDithering", "stuckiDithering",
   "burkesDithering", "sierraDithering"}

\* The kernel an error-diffusion routine passes.
KernelOf(routine) ==
  CASE routine = "floydSteinbergDithering" -> FloydSteinbergKernel
    [] routine = "atkinsonDithering" -> AtkinsonKernel
    [] routine = "stuckiDithering" -> StuckiKernel
    [] routine = "burkesDithering" -> BurkesKernel
    [] routine = "sierraDithering" -> SierraKernel

\* C1: after processImage has returned, for every id (registered or not) and
\* every options object, every sample of the caller's array is what it was
\* when the call began.
InputNeverMutated == HasReturned => heap[imageData.data] = before

\* A call of a registered routine has returned an array that differs from the
\* input, which is as it was.
InputNeverMutatedWitness ==
  /\ HasReturned
  /\ call.algorithmId \in RegisteredIds
  /\ returned.data # imageData.data
  /\ Output # before
  /\ heap[imageData.data] = before

\* C2: for each of the fifteen algorithms, every image and every options
\* object, the alpha sample of every output pixel is the alpha sample of the
\* input pixel at the same position.
AlphaPassThrough ==
  (HasReturned /\ call.algorithmId \in RegisteredIds)
    => \A p \in Pixels : Output[4 * p + 3] = before[4 * p + 3]

\* C3: when the id is not a registered one, processImage returns (it does not
\* throw), has logged one warning naming the id, and the array it returns has
\* the input's dimensions and the input's samples.
UnknownIdLeavesCopy ==
  (call.routine # "" /\ call.algorithmId \notin RegisteredIds)
    => /\ HasReturned
       /\ consoleWarn = << <<"Unknown algorithm", call.algorithmId>> >>
       /\ returned.width = imageData.width
       /\ returned.height = imageData.height
       /\ DOMAIN Output = DOMAIN before
       /\ Output = before

\* A call with an unregistered id has returned, on an image of several colours.
UnknownIdWitness ==
  /\ HasReturned
  /\ call.algorithmId = "unknown"
  /\ call.routine = "none"
  /\ Len(consoleWarn) = 1
  /\ \E p, q \in Pixels : before[4 * p] # before[4 * q]

\* The routines of the error-diffusion, Bayer and blue-noise cases.
BinaryRoutines == ErrorDiffusionRoutines \cup {"bayerDithering", "blueNoiseDithering"}

\* C4: for the five error-diffusion algorithms, the four Bayer algorithms and
\* blue-noise, every image and every intensity in 0..100, every output pixel
\* has R = G = B, and that value is 0 or 255.
BinaryOutput ==
  (HasReturned /\ call.routine \in BinaryRoutines /\ call.args.intensity \in 0..100)
    => \A p \in Pixels :
         /\ Output[4 * p] \in {0, 255}
         /\ Output[4 * p + 1] = Output[4 * p]
         /\ Output[4 * p + 2] = Output[4 * p]

\* Floyd-Steinberg at half intensity has returned an image with black and
\* white pixels, from an input with a pixel that is neither, not in the last
\* column (so that error was diffused).
BinaryOutputWitness ==
  /\ HasReturned
  /\ call.algorithmId = "floyd-steinberg"
  /\ call.args.intensity = 50
  /\ \E p \in Pixels :
       /\ Gray(before, 4 * p) \notin {0, 255}
       /\ (p % imageData.width) + 1 < imageData.width
  /\ \E p, q \in Pixels : Output[4 * p] = 0 /\ Output[4 * q] = 255

\* C5: for the five error-diffusion algorithms at intensity 0, every output
\* pixel is 0 when the luminance of its own input pixel is below 128 and 255
\* otherwise, whatever the other pixels are.
ZeroIntensityIsThreshold ==
  (HasReturned /\ call.routine \in ErrorDiffusionRoutines /\ call.args.intensity = 0)
    => \A p \in Pixels :
         LET own == IF Gray(before, 4 * p) < 128 THEN 0 ELSE 255
         IN  /\ Output[4 * p] = own
             /\ Output[4 * p + 1] = own
             /\ Output[4 * p + 2] = own

\* An error-diffusion call at intensity 0 has returned, on an image for which
\* the same routine at intensity 100 gives another output.
ZeroIntensityWitness ==
  /\ HasReturned
  /\ call.routine \in ErrorDiffusionRoutines
  /\ "intensity" \in DOMAIN call.options
  /\ call.args.intensity = 0
  /\ errorDiffusion(before, imageData.width, imageData.height, 100,
                    KernelOf(call.routine)) # Output

\* The most recent call is a repetition of the retained one: the same id and
\* options, on an input with the same samples.
RepeatsKept ==
  /\ HasReturned
  /\ kept # NoKept
  /\ call.algorithmId = kept.call.algorithmId
  /\ call.options = kept.call.options
  /\ before = kept.input

\* The ids of the error-diffusion, Bayer, halftone, stipple and random-white
\* cases.
DeterministicFamilies ==
  {"floyd-steinberg", "atkinson", "stucki", "burkes", "sierra",
   "bayer-2x2", "bayer-4x4", "bayer-8x8", "bayer-16x16",
   "halftone", "stipple", "random-white"}

\* C6: for the error-diffusion algorithms, Bayer, halftone, stipple and
\* random-white with a fixed seed, two calls with the same input samples and
\* the same options return the same samples, whatever calls were made in
\* between.
RepeatableOutput ==
  (RepeatsKept /\ call.algorithmId \in DeterministicFamilies)
    => Output = kept.output

\* random-white with a seed has been repeated after another call was made
\* since its output was retained, and has changed the image as before.
RepeatableOutputWitness ==
  /\ RepeatsKept
  /\ call.algorithmId = "random-white"
  /\ "seed" \in DOMAIN call.options
  /\ kept.later = MaxLater
  /\ Output # before
  /\ Output = kept.output

\* C7: every algorithm other than pixel-sort, databend and unseeded
\* random-white, blue-noise among them, returns the same samples on every call
\* with the same input samples and the same options.
StableOutput ==
  (RepeatsKept /\ call.algorithmId \in RegisteredIds \ {"pixel-sort", "databend"})
    => Output = kept.output

\* The name under which a routine receives a parameter of the options.
ArgumentFor(name) == IF name = "corruption" THEN "corruptionLevel" ELSE name

\* C8: every value of seed, tileSize, dotSize, density or corruption present
\* in the options, 0 included, is the value the routine receives; in
\* particular random-white with seed 0 starts its generator from 0.
SuppliedValueApplied ==
  HasReturned =>
    \A name \in {"seed", "tileSize", "dotSize", "density", "corruption"} :
      (name \in DOMAIN call.options /\ ArgumentFor(name) \in DOMAIN call.args)
        => call.args[ArgumentFor(name)] = call.options[name]

\* C9: for every registered algorithm and every parameter of its schema that
\* is absent from the options, the value the routine receives is the default
\* of that parameter in the algorithm's descriptor.
AbsentUsesDescriptorDefault ==
  (HasReturned /\ call.algorithmId \in RegisteredIds) =>
    \A name \in DOMAIN getAlgorithmById(call.algorithmId).parameters :
      name \notin DOMAIN call.options
        => call.args[ArgumentFor(name)]
             = getAlgorithmById(call.algorithmId).parameters[name].default

\* C10: databend with corruption = 0 makes no corruption event and returns
\* the input's samples, for every image size and every intensity.
ZeroCorruptionLeavesInput ==
  (/\ HasReturned
   /\ call.algorithmId = "databend"
   /\ "corruption" \in DOMAIN call.options
   /\ call.options.corruption = 0)
    => /\ CorruptionCount(imageData.width, imageData.height,
                          call.args.intensity, call.args.corruptionLevel) = 0
       /\ Output = before

\* C11: databend changes only red samples: the green, blue and alpha sample
\* of every pixel of the output is the input's, the output has the input's
\* length, and every index a corruption event assigns to (point, shift,
\* block or duplication, whatever the draws) is the red index of a pixel of
\* the buffer.
DatabendOnlyRed ==
  (HasReturned /\ call.routine = "databendDithering") =>
    /\ DOMAIN Output = DOMAIN before
    /\ \A i \in DOMAIN Output : i % 4 # 0 => Output[i] = before[i]
    /\ \A rand \in Tapes :
         databendWrites([data |-> before, k |-> 0, e |-> 0, writes |-> {}],
                        imageData.width, imageData.height,
                        CorruptionCount(imageData.width, imageData.height,
                                        call.args.intensity,
                                        call.args.corruptionLevel), rand)
           \subseteq {4 * p : p \in Pixels}

\* A databend call of several events that changed a red sample.
DatabendOnlyRedWitness ==
  /\ HasReturned
  /\ call.routine = "databendDithering"
  /\ CorruptionCount(imageData.width, imageData.height,
                     call.args.intensity, call.args.corruptionLevel) >= 2
  /\ \E p \in Pixels : Output[4 * p] # before[4 * p]

\* The call was made on the 4 x 4 image whose every pixel is (128, 128, 128, 255).
OnGrey4x4 ==
  /\ HasReturned
  /\ imageData.width = 4
  /\ imageData.height = 4
  /\ before = PatternImage(4, 4, 0, 0, 1)

\* The pixels p and q are horizontal or vertical neighbours.
Adjacent(p, q) ==
  LET w == imageData.width
  IN  \/ (p \div w = q \div w /\ q = p + 1)
      \/ q = p + w

\* Horizontally and vertically adjacent pixels of the output always differ.
AdjacentDiffer ==
  \A p \in Pixels, q \in Pixels : Adjacent(p, q) => Output[4 * p] # Output[4 * q]

\* C12: on the 4 x 4 image of (128, 128, 128, 255), bayer-2x2 with threshold
\* 128 and intensity 100 gives the pattern of the normalized 2 x 2 matrix: a
\* pixel is white exactly where entry / size^2 is below 0.5, and adjacent
\* pixels always differ.
BayerNormalizedPattern ==
  (/\ OnGrey4x4
   /\ call.algorithmId = "bayer-2x2"
   /\ call.args.threshold = 128
   /\ call.args.intensity = 100)
    => /\ \A p \in Pixels :
            LET x == p % 4
                y == p \div 4
                entry == generateBayerMatrix(2)[(y % 2) + 1][(x % 2) + 1]
            IN  Output[4 * p] = (IF 2 * entry < 2 * 2 THEN 255 ELSE 0)
       /\ AdjacentDiffer

\* C13: on the 4 x 4 image of (128, 128, 128, 255), floyd-steinberg at
\* intensity 100 returns, on every run, the same checkerboard: every pixel is
\* 0 or 255, white where x + y is even, so adjacent pixels always differ.
FloydSteinbergCheckerboard ==
  (/\ OnGrey4x4
   /\ call.routine = "floydSteinbergDithering"
   /\ call.args.intensity = 100)
    => /\ \A p \in Pixels :
            LET colour == IF ((p % 4) + (p \div 4)) % 2 = 0 THEN 255 ELSE 0
            IN  /\ Output[4 * p] = colour
                /\ Output[4 * p + 1] = colour
                /\ Output[4 * p + 2] = colour
       /\ AdjacentDiffer

\* floyd-steinberg has returned for the grey 4 x 4 image, once with intensity
\* 100 passed and once with it left to its default.
FloydSteinbergCheckerboardWitness ==
  /\ OnGrey4x4
  /\ call.routine = "floydSteinbergDithering"
  /\ call.args.intensity = 100
  /\ "intensity" \in DOMAIN call.options
  /\ Output[0] = 255
  /\ Output[4] = 0

\* The least luminance g of 0..255 with Math.round(g / 255 * intensity / 100)
\* >= 1, that is with 2 * g * intensity >= 25500; 256 when there is none.
HalftoneCutoff(intensity) ==
  IF intensity <= 0 THEN 256
  ELSE Min(256, (25500 + 2 * intensity - 1) \div (2 * intensity))

\* C14: halftone with dotSize = 1 is per-pixel thresholding: every output
\* pixel is 0 or 255, decided by comparing the luminance of the same pixel of
\* the input with one cutoff that depends on the intensity alone (black from
\* the cutoff on, white below it), whatever the other pixels are.
HalftoneUnitDotThresholds ==
  (/\ HasReturned
   /\ call.routine = "halftoneDithering"
   /\ call.args.dotSize = 1)
    => \A p \in Pixels :
         LET colour == IF Gray(before, 4 * p) >= HalftoneCutoff(call.args.intensity)
                       THEN 0 ELSE 255
         IN  /\ Output[4 * p] = colour
             /\ Output[4 * p + 1] = colour
             /\ Output[4 * p + 2] = colour

\* halftone with dotSize 1 has returned for an image of several colours, and
\* the cutoff left some pixels white and made others black.
HalftoneUnitDotWitness ==
  /\ HasReturned
  /\ call.routine = "halftoneDithering"
  /\ call.args.dotSize = 1
  /\ \E p \in Pixels, q \in Pixels :
       /\ Output[4 * p] = 0
       /\ Output[4 * q] = 255
       /\ Gray(before, 4 * p) < 255

\* The side of the square the sample point (gx, gy) gets when its luminance
\* is read from the input image: 0 when the point is not dark.
OriginalDotSide(gx, gy) ==
  LET L == Gray(before, (gy * imageData.width + gx) * 4)
  IN  IF L < 128
      THEN Max(0, StippleDotSize(L, call.args.density, call.args.intensity))
      ELSE 0

\* C15: stipple reads the original image: the pixels of the output that are
\* black are those of the squares anchored at the grid points (multiples of
\* density in x and y) whose luminance L in the input is below 128, of side
\* floor((128 - L) / 128 * density * intensity / 100), clipped at the edge;
\* every other pixel is white.
StippleReadsOriginal ==
  (/\ HasReturned
   /\ call.routine = "stippleDithering"
   /\ call.args.density >= 1)
    => \A p \in Pixels :
         LET x == p % imageData.width
             y == p \div imageData.width
             inSquare ==
               \E gx \in 0..x, gy \in 0..y :
                 /\ gx % call.args.density = 0
                 /\ gy % call.args.density = 0
                 /\ x < gx + OriginalDotSide(gx, gy)
                 /\ y < gy + OriginalDotSide(gx, gy)
         IN  Output[4 * p] = (IF inSquare THEN 0 ELSE 255)

\* The sum of the entries of rows r.. of the matrix.
RECURSIVE SumOfRow(_, _)
SumOfRow(row, c) == IF c > Len(row) THEN 0 ELSE row[c] + SumOfRow(row, c + 1)

RECURSIVE SumOfMatrix(_, _)
SumOfMatrix(matrix, r) ==
  IF r > Len(matrix) THEN 0
  ELSE SumOfRow(matrix[r], 1) + SumOfMatrix(matrix, r + 1)

\* C16: for each size N of 2, 4, 8, 16 the matrix the Bayer routine generates
\* is N x N and its entries are exactly the integers 0..N*N-1, each once; so
\* the mean of entry / (N*N) - 0.5 is -1 / (2*N*N), that is the entries sum
\* to (N^4 - N^2) / 2.
BayerMatrixIsPermutation ==
  (HasReturned /\ call.routine = "bayerDithering") =>
    LET N == call.args.size
        bayerMatrix == generateBayerMatrix(N)
    IN  /\ N \in {2, 4, 8, 16}
        /\ Len(bayerMatrix) = N
        /\ \A r \in 1..N : Len(bayerMatrix[r]) = N
        /\ {bayerMatrix[r][c] : r \in 1..N, c \in 1..N} = 0..(N * N - 1)
        /\ 2 * SumOfMatrix(bayerMatrix, 1) = N * N * N * N - N * N

\* The Bayer routine has returned for the size 16 (and so for the matrix that
\* is filled procedurally), with both colours in its output.
BayerMatrixIsPermutationWitness ==
  /\ HasReturned
  /\ call.routine = "bayerDithering"
  /\ call.args.size = 16
  /\ \E p \in Pixels, q \in Pixels : Output[4 * p] = 0 /\ Output[4 * q] = 255

\* The steps of the error-diffusion call that has returned.
StepsOfCall ==
  diffusionSteps([data |-> before, p |-> 0, writes |-> {}, buffers |-> {before}],
                 imageData.width, imageData.height, call.args.intensity,
                 KernelOf(call.routine))

\* C18: every sample of the working buffer is an integer of 0..255, in the
\* output of every algorithm and after every step of an error-diffusion loop,
\* whatever the intensity (negative and 400 included); a diffused error that
\* takes a sample to 0 or below leaves 0, one that takes it to 255 or above
\* leaves 255, and any other leaves the nearest integer: no sample wraps.
ChannelClamp ==
  HasReturned =>
    /\ \A i \in DOMAIN Output : Output[i] \in 0..255
    /\ call.routine \in ErrorDiffusionRoutines =>
         LET steps == StepsOfCall
         IN
         /\ \A buffer \in steps.buffers :
              \A i \in DOMAIN buffer : buffer[i] \in 0..255
         /\ \A w \in steps.writes :
              LET sum == w.old * w.ed + w.en
              IN  /\ w.new \in 0..255
                  /\ sum <= 0 => w.new = 0
                  /\ sum >= 255 * w.ed => w.new = 255
                  /\ (sum > 0 /\ sum < 255 * w.ed)
                       => (2 * (w.new * w.ed - sum) <= w.ed
                           /\ 2 * (sum - w.new * w.ed) <= w.ed)

\* An error-diffusion call with intensity 400 has returned, in which one error
\* took a sample above 255 and another took one below 0.
ChannelClampWitness ==
  /\ HasReturned
  /\ call.routine \in ErrorDiffusionRoutines
  /\ call.args.intensity = 400
  /\ \E w \in StepsOfCall.writes : w.old * w.ed + w.en > 255 * w.ed /\ w.new = 255
  /\ \E w \in StepsOfCall.writes : w.old * w.ed + w.en < 0 /\ w.new = 0

\* The kernel tables of the specification, section 4.2: for each routine the
\* set of <<dx, dy, weight, divisor>>.
SpecKernelTable(routine) ==
  CASE routine = "floydSteinbergDithering" ->
         {<<1, 0, 7, 16>>, <<-1, 1, 3, 16>>, <<0, 1, 5, 16>>, <<1, 1, 1, 16>>}
    [] routine = "atkinsonDithering" ->
         {<<1, 0, 1, 8>>, <<2, 0, 1, 8>>, <<-1, 1, 1, 8>>, <<1, 1, 1, 8>>,
          <<-2, 1, 1, 8>>, <<0, 2, 1, 8>>}
    [] routine = "stuckiDithering" ->
         {<<1, 0, 8, 42>>, <<2, 0, 4, 42>>,
          <<-2, 1, 2, 42>>, <<-1, 1, 4, 42>>, <<0, 1, 8, 42>>, <<1, 1, 4, 42>>,
          <<2, 1, 2, 42>>,
          <<-2, 2, 1, 42>>, <<-1, 2, 2, 42>>, <<0, 2, 4, 42>>, <<1, 2, 2, 42>>,
          <<2, 2, 1, 42>>}
    [] routine = "burkesDithering" ->
         {<<1, 0, 8, 32>>, <<2, 0, 4, 32>>,
          <<-2, 1, 2, 32>>, <<-1, 1, 4, 32>>, <<0, 1, 8, 32>>, <<1, 1, 4, 32>>,
          <<2, 1, 2, 32>>}
    [] routine = "sierraDithering" ->
         {<<1, 0, 5, 32>>, <<2, 0, 3, 32>>,
          <<-2, 1, 2, 32>>, <<-1, 1, 4, 32>>, <<0, 1, 5, 32>>, <<1, 1, 4, 32>>,
          <<2, 1, 2, 32>>,
          <<-1, 2, 2, 32>>, <<0, 2, 3, 32>>, <<1, 2, 2, 32>>}

\* Every target of the routine's table lies inside the image for the pixel p.
AllTargetsInBounds(routine, p) ==
  \A t \in SpecKernelTable(routine) :
    /\ (p % imageData.width) + t[1] \in 0..(imageData.width - 1)
    /\ (p \div imageData.width) + t[2] \in 0..(imageData.height - 1)

\* The working buffer of the returned error-diffusion call when its loop
\* reached the pixel p.
BufferAt(p) ==
  diffusedUpTo(before, imageData.width, imageData.height, call.args.intensity,
               KernelOf(call.routine), p)

\* The working buffers of the returned error-diffusion call in the order of
\* its loop: element p + 1 is BufferAt(p), the last one is the buffer after
\* the last pixel.
RECURSIVE BuffersFrom(_)
BuffersFrom(buffers) ==
  LET p == Len(buffers) - 1
  IN  IF p >= imageData.width * imageData.height THEN buffers
      ELSE BuffersFrom(Append(buffers,
             DiffusePixel(buffers[p + 1], imageData.width, imageData.height,
                          call.args.intensity, KernelOf(call.routine),
                          p % imageData.width, p \div imageData.width)))

BuffersOfCall == BuffersFrom(<<before>>)

\* The buffer the specification's table gives after the pixel p of buffer b:
\* with L the luminance of p, newL its binarization and e = (L - newL) *
\* intensity / 100, the sample at ((y + dy) * width + (x + dx)) * 4 holds the
\* stored value of its old value plus e * w / d for every row of the table,
\* the R, G, B of p hold newL, and every other sample is as in b.
TableStep(b, routine, p) ==
  LET x == p % imageData.width
      y == p \div imageData.width
      L == Gray(b, 4 * p)
      newL == IF L < 128 THEN 0 ELSE 255
      target(t) == ((y + t[2]) * imageData.width + (x + t[1])) * 4
      rows(j) == {t \in SpecKernelTable(routine) : target(t) = j}
  IN  [j \in DOMAIN b |->
         IF j \in {4 * p, 4 * p + 1, 4 * p + 2} THEN newL
         ELSE IF rows(j) # {}
              THEN LET t == CHOOSE t \in rows(j) : TRUE
                   IN  ToUint8Clamp(b[j] * 100 * t[4]
                                      + (L - newL) * call.args.intensity * t[3],
                                    100 * t[4])
              ELSE b[j]]

RECURSIVE SumOfWeights(_, _)
SumOfWeights(kernel, k) ==
  IF k > Len(kernel.taps) THEN 0
  ELSE kernel.taps[k][3] + SumOfWeights(kernel, k + 1)

\* The sum of the error numerators (error = en / ed) of a set of writes.
RECURSIVE SumOfErrors(_)
SumOfErrors(writes) ==
  IF writes = {} THEN 0
  ELSE LET w == CHOOSE w \in writes : TRUE
       IN  w.en + SumOfErrors(writes \ {w})

\* The amounts the call distributed for the pixel p add up to
\* num / den of the pixel's scaled error e = (L - newL) * intensity / 100;
\* steps has the buffers of the call's loop and the writes of its
\* distributeError calls.
DistributesFraction(steps, p, num, den) ==
  LET L == Gray(steps.buffers[p + 1], 4 * p)
      newL == IF L < 128 THEN 0 ELSE 255
      kernel == KernelOf(call.routine)
  IN  den * SumOfErrors({w \in steps.writes : w.pixel = p})
        = num * (L - newL) * call.args.intensity * kernel.divisor

\* The statement of C20 as it was claimed: for each of the five kernels the
\* weights sum to the divisor, and for a pixel whose targets are all in bounds
\* the amounts distributed add up to the whole scaled error.
WeightsSumToDivisor ==
  (HasReturned /\ call.routine \in ErrorDiffusionRoutines) =>
    LET steps == [buffers |-> BuffersOfCall, writes |-> StepsOfCall.writes]
    IN
    /\ SumOfWeights(KernelOf(call.routine), 1) = KernelOf(call.routine).divisor
    /\ \A p \in Pixels :
         AllTargetsInBounds(call.routine, p) =>
           DistributesFraction(steps, p, 1, 1)

\* C20: for Floyd-Steinberg, Stucki, Burkes and Sierra the weights sum to the
\* kernel's divisor, so for a pixel whose targets are all in bounds the
\* amounts distributed add up to the whole scaled error e; the six weights of
\* Atkinson sum to 6 against its divisor 8, so three quarters of e are
\* distributed.
WeightsSumExceptAtkinson ==
  (HasReturned /\ call.routine \in ErrorDiffusionRoutines) =>
    LET kernel == KernelOf(call.routine)
        steps == [buffers |-> BuffersOfCall, writes |-> StepsOfCall.writes]
    IN  IF call.routine = "atkinsonDithering"
        THEN /\ SumOfWeights(kernel, 1) = 6
             /\ kernel.divisor = 8
             /\ \A p \in Pixels :
                  AllTargetsInBounds(call.routine, p) =>
                    DistributesFraction(steps, p, 3, 4)
        ELSE /\ SumOfWeights(kernel, 1) = kernel.divisor
             /\ \A p \in Pixels :
                  AllTargetsInBounds(call.routine, p) =>
                    DistributesFraction(steps, p, 1, 1)

\* An Atkinson call has returned for a 5 x 3 image on which the pixel (2, 0),
\* whose six targets are all in bounds, had a non-zero error.
WeightsSumWitness ==
  /\ HasReturned
  /\ call.routine = "atkinsonDithering"
  /\ call.args.intensity \in {50, 100}
  /\ AllTargetsInBounds(call.routine, 2)
  /\ Gray(BufferAt(2), 8) \notin {0, 255}
  /\ \E w \in StepsOfCall.writes : w.pixel = 2 /\ w.en # 0

\* C17: every call runs to completion, negative parameters included: no loop
\* fails to make progress, that is every iteration of the grid loops of a
\* call in progress moves the loop forward (y grows, or y stays and x grows).
LoopsAdvance ==
  [][(loop.active /\ loop'.active)
       => \/ loop'.y > loop.y
          \/ (loop'.y = loop.y /\ loop'.x > loop.x)]_vars

\* The buffer after the pixel p of buffer b when only the kernel targets whose
\* coordinate (x + dx, y + dy) lies inside the image are written: each of them
\* holds the stored value of its old value plus e * w / d, the R, G, B of p
\* hold newL, every other sample is as in b.
InBoundsStep(b, routine, p) ==
  LET x == p % imageData.width
      y == p \div imageData.width
      L == Gray(b, 4 * p)
      newL == IF L < 128 THEN 0 ELSE 255
      inside == {t \in SpecKernelTable(routine) :
                   /\ x + t[1] \in 0..(imageData.width - 1)
                   /\ y + t[2] \in 0..(imageData.height - 1)}
      target(t) == ((y + t[2]) * imageData.width + (x + t[1])) * 4
      rows(j) == {t \in inside : target(t) = j}
  IN  [j \in DOMAIN b |->
         IF j \in {4 * p, 4 * p + 1, 4 * p + 2} THEN newL
         ELSE IF rows(j) # {}
              THEN LET t == CHOOSE t \in rows(j) : TRUE
                   IN  ToUint8Clamp(b[j] * 100 * t[4]
                                      + (L - newL) * call.args.intensity * t[3],
                                    100 * t[4])
              ELSE b[j]]

\* C21: in every error-diffusion routine a kernel target whose coordinate
\* (x + dx, y + dy) is outside the image causes no write at all, even when
\* its linear index is inside the buffer: after each pixel the buffer is the
\* one that the in-bounds targets alone give, so an offset past the right
\* edge leaves the start of the next row alone and an offset before the left
\* edge leaves the end of the previous row alone.
OutOfBoundsDropped ==
  (HasReturned /\ call.routine \in ErrorDiffusionRoutines) =>
    LET buffers == BuffersOfCall
    IN  \A p \in Pixels :
      DiffusePixel(buffers[p + 1], imageData.width, imageData.height,
                   call.args.intensity, KernelOf(call.routine),
                   p % imageData.width, p \div imageData.width)
        = InBoundsStep(buffers[p + 1], call.routine, p)

\* A Floyd-Steinberg call has returned in which a pixel of the last column,
\* not of the last row, had a non-zero error: the index of its right-hand
\* target is the first sample of the next row, which the step left as it was.
OutOfBoundsDroppedWitness ==
  /\ HasReturned
  /\ call.routine = "floydSteinbergDithering"
  /\ call.args.intensity = 100
  /\ imageData.width >= 3
  /\ \E p \in Pixels :
       /\ p % imageData.width = imageData.width - 1
       /\ p \div imageData.width < imageData.height - 1
       /\ Gray(BufferAt(p), 4 * p) \notin {0, 255}
       /\ BufferAt(p + 1)[4 * (p + 1)] = BufferAt(p)[4 * (p + 1)]

\* C22: error diffusion goes through the pixels in raster order, and the
\* step of pixel number p writes only to p itself and to pixels after it: it
\* leaves every sample of the pixels before p as it was, it leaves the R, G,
\* B of p at 0 or 255, and these are the values the output has, so a pixel
\* that has been binarized is not modified again during the call.
BinarizedPixelsAreFinal ==
  (HasReturned /\ call.routine \in ErrorDiffusionRoutines) =>
    LET buffers == BuffersOfCall
    IN
    /\ buffers[imageData.width * imageData.height + 1] = Output
    /\ \A p \in Pixels :
         LET reached == buffers[p + 1]
             left == buffers[p + 2]
         IN  /\ \A j \in 0..(4 * p - 1) : left[j] = reached[j]
             /\ \A c \in 0..2 :
                  /\ left[4 * p + c] \in {0, 255}
                  /\ Output[4 * p + c] = left[4 * p + c]

\* A Stucki call has returned in which the step of a pixel that is not the
\* first changed the red sample of a later pixel.
BinarizedPixelsAreFinalWitness ==
  /\ HasReturned
  /\ call.routine = "stuckiDithering"
  /\ call.args.intensity = 100
  /\ \E p \in Pixels \ {0} :
       \E q \in Pixels : q > p /\ BufferAt(p + 1)[4 * q] # BufferAt(p)[4 * q]

\* C23: in Bayer dithering the matrix term of the effective threshold is the
\* normalized value raw / size^2 of [0, 1): for every size, threshold t and
\* intensity f of 0..100, the effective threshold of every pixel lies within
\* t - 127.5 * f / 100 .. t + 127.5 * f / 100 (here multiplied by 200).
BayerThresholdWithinBand ==
  (/\ HasReturned
   /\ call.routine = "bayerDithering"
   /\ call.args.intensity \in 0..100)
    => \A p \in Pixels :
         LET value == BayerThresholdValue(call.args.threshold, call.args.size,
                                          p % imageData.width,
                                          p \div imageData.width,
                                          call.args.intensity)
         IN  /\ value >= 200 * call.args.threshold - 255 * call.args.intensity
             /\ value <= 200 * call.args.threshold + 255 * call.args.intensity

\* C24: the tables of size 2, 4 and 8 follow one recursive construction: with
\* B the table of size 2 and n = 2 or 4, the table of size 2n has
\* M(2n)[i][j] = 4 * M(n)[i mod n][j mod n] + B[i div n][j div n] for all
\* i, j (0-based), which gives the table of size 4 from B and the table of
\* size 8 from the table of size 4.
BayerRecursiveConstruction ==
  (HasReturned /\ call.routine = "bayerDithering" /\ call.args.size \in {4, 8}) =>
    LET n == call.args.size \div 2
        M == generateBayerMatrix(2 * n)
        S == generateBayerMatrix(n)
        B == generateBayerMatrix(2)
    IN  \A i \in 0..(2 * n - 1), j \in 0..(2 * n - 1) :
          M[i + 1][j + 1]
            = 4 * S[(i % n) + 1][(j % n) + 1] + B[(i \div n) + 1][(j \div n) + 1]

\* The fill count of the block of the input that holds the pixel (x, y), for
\* blocks of side dotSize.
FillCountAt(x, y, dotSize) ==
  LET sum == SumBlock([totalGray |-> 0, count |-> 0, c |-> 0], before,
                      imageData.width, imageData.height, dotSize,
                      x - (x % dotSize), y - (y % dotSize))
  IN  DotIntensity(sum.totalGray, sum.count, dotSize, call.args.intensity)

\* C25: within every dotSize x dotSize block with fill count k, the pixels
\* painted black are the first k in raster order, those with rank
\* dy * dotSize + dx < k, and all the other pixels of the block are white.
HalftoneFillsFirst ==
  (/\ HasReturned
   /\ call.routine = "halftoneDithering"
   /\ call.args.dotSize >= 1)
    => \A p \in Pixels :
         LET dotSize == call.args.dotSize
             x == p % imageData.width
             y == p \div imageData.width
             rank == (y % dotSize) * dotSize + (x % dotSize)
         IN  Output[4 * p] = (IF rank < FillCountAt(x, y, dotSize) THEN 0 ELSE 255)

\* The RGBA quadruple of the pixel (x, y) of a buffer.
Quadruple(data, x, y) ==
  LET i == (y * imageData.width + x) * 4
  IN  <<data[i], data[i + 1], data[i + 2], data[i + 3]>>

\* C26: pixel-sort swaps stay inside the row: for an intensity of 0..100 the
\* partner of the pixel (x, y) is at (min(width - 1, x + k), y) for an
\* integer k with 0 <= k <= 5 * intensity / 100, whatever the draw; so every
\* row of the output holds the quadruples of the same row of the input, each
\* as many times, and with intensity 0 the output is the input.
PixelSortStaysInRow ==
  (/\ HasReturned
   /\ call.routine = "pixelSortDithering"
   /\ call.args.intensity \in 0..100)
    => /\ \A x \in 0..(imageData.width - 1), r \in RandomUnits :
            \E k \in 0..((5 * call.args.intensity) \div 100) :
              SortTarget(imageData.width, x, r, call.args.intensity)
                = Min(imageData.width - 1, x + k)
       /\ \A y \in 0..(imageData.height - 1), x \in 0..(imageData.width - 1) :
            Cardinality({x2 \in 0..(imageData.width - 1) :
                           Quadruple(Output, x2, y) = Quadruple(Output, x, y)})
              = Cardinality({x2 \in 0..(imageData.width - 1) :
                               Quadruple(before, x2, y) = Quadruple(Output, x, y)})
       /\ call.args.intensity = 0 => Output = before

\* A pixel-sort call with intensity 100 has returned with a row whose pixels
\* changed places.
PixelSortStaysInRowWitness ==
  /\ HasReturned
  /\ call.routine = "pixelSortDithering"
  /\ call.args.intensity = 100
  /\ imageData.height >= 2
  /\ Output # before

\* The recurrence of the specification, section 4.5, in exact integer
\* arithmetic: (state * 1103515245 + 12345) mod 2^31.
ExactLcgNext(state) ==
  Mod2Pow31(Carry([ExactProduct(state) EXCEPT ![1] = @ + Increment]))

\* C27: random dithering draws one generator value per pixel in raster order,
\* and each successive generator state is (previous * 1103515245 + 12345)
\* mod 2^31 computed exactly, an integer of 0..2^31-1.
ExactGeneratorStates ==
  (HasReturned /\ call.routine = "randomDithering") =>
    \A k \in 1..(imageData.width * imageData.height) :
      LET previous == RandomStateAfter(call.args.seed, k - 1)
          state == RandomStateAfter(call.args.seed, k)
      IN  /\ state >= 0
          /\ state \div 2 < Base * Base
          /\ state = ExactLcgNext(previous)

\* Identifiers that no registry entry has, next to the registered ones.
CandidateIds ==
  RegisteredIds \cup {"unknown", "", "bayer", "Floyd-Steinberg", "stipple "}

\* C30: the identifiers of DITHERING_ALGORITHMS are pairwise distinct, the
\* switch of processImage has a case for an identifier exactly when the
\* registry has an entry for it (a call with a registered id never reaches
\* the unknown-algorithm branch and warns of nothing, a call with any other id
\* does), every entry's category is one of ALGORITHM_CATEGORIES and every
\* parameter's default lies within its [min, max].
RegistryAndDispatchAgree ==
  /\ \A j, k \in DOMAIN DITHERING_ALGORITHMS :
       j # k => DITHERING_ALGORITHMS[j].id # DITHERING_ALGORITHMS[k].id
  /\ \A id \in CandidateIds :
       (Dispatch(id, 100, 128, NoOptions).routine # "none") <=>
         (id \in RegisteredIds)
  /\ \A k \in DOMAIN DITHERING_ALGORITHMS :
       LET entry == DITHERING_ALGORITHMS[k]
       IN  /\ \E c \in DOMAIN ALGORITHM_CATEGORIES :
                 ALGORITHM_CATEGORIES[c] = entry.category
           /\ \A n \in DOMAIN entry.parameters :
                 /\ entry.parameters[n].min <= entry.parameters[n].default
                 /\ entry.parameters[n].default <= entry.parameters[n].max
  /\ returned # NoResult =>
       /\ (call.routine # "none") <=> (call.algorithmId \in RegisteredIds)
       /\ (consoleWarn = << >>) <=> (call.algorithmId \in RegisteredIds)

\* A call with the last registered id has returned through its own case, and
\* no warning was written.
RegistryAndDispatchAgreeWitness ==
  /\ returned # NoResult
  /\ call.algorithmId = DITHERING_ALGORITHMS[Len(DITHERING_ALGORITHMS)].id
  /\ call.routine = "stippleDithering"
  /\ consoleWarn = << >>

-----------------------------------------------------------------------------
(* Properties of the calling application *)

\* This step stores the result of a call: shown becomes that call.
StoresResult == shown' # shown /\ shown'.serial # 0

\* Nothing is pending: no call in flight, no debounce timer, no file being
\* read.
Quiescent == inFlight = {} /\ ~timeoutId /\ readers = {}

\* C28: last result wins.  A call that is no longer the most recently started
\* one when it completes never replaces the result of a later-started call and
\* never puts its result next to an image, an algorithm or parameters other
\* than its own; and once nothing is pending, a displayed result is that of
\* the most recently started call.
LastResultWins ==
  [][ /\ (StoresResult /\ shown'.serial < started') =>
           /\ shown.serial < shown'.serial
           /\ shown'.image = currentImage'
           /\ shown'.algorithm = selectedAlgorithm'
           /\ shown'.parameters = algorithmParameters'
      /\ (Quiescent' /\ processedImage' # NoImage) =>
           shown'.serial = started' ]_vars

\* C29: isProcessing is true whenever a call is in flight; hence a Clear
\* (which advances uploadResetToken) and an Export (which advances downloads)
\* happen only when no call is in flight, so that no call begun before a Clear
\* stores its result after it.
ProcessingCoversCallsInFlight ==
  [][ /\ inFlight' # {} => isProcessing'
      /\ uploadResetToken' # uploadResetToken => inFlight = {}
      /\ downloads' # downloads => inFlight = {} ]_vars

====
